---- MODULE Spec2Model ----
(***************************************************************************)
(* Auto Git Commit (Obsidian plugin): the commit orchestrator, the         *)
(* conflict gate and the pull / push / revert / resolve entry points of    *)
(* AutoGitPlugin (src/src/main.ts, third class, lines 607-1325), the       *)
(* settings-tab buttons that call into it (src/unnamed/part_004) and the   *)
(* git layer they await (src/src/git.ts, lines 172-564).                   *)
(*                                                                         *)
(* One action is one run of the JavaScript event loop: a handler or the    *)
(* continuation of an async function from the completion of the awaited    *)
(* subprocess up to the next await.  A subprocess that is awaited is the   *)
(* position (pc) of the task that awaits it.                               *)
(***************************************************************************)
EXTENDS Naturals, Sequences, FiniteSets, TLC

\* ------------------------------------------------------------------ bounds
\* The debounce delay (settings.debounceSeconds * 1000 ms) in clock ticks.
DebounceTicks == 1
\* Qualifying file events the vault delivers in one run ("events stop arriving").
MaxEvents == 2
\* Entry points other than runCommit that are in flight at the same time.
MaxInFlight == 1
\* Records in one `git status` output.
MaxRecords == 2
\* refresh() calls of the status engine awaiting their queries at the same time.
MaxRefreshing == 1

\* Paths `git diff --name-only --diff-filter=U` can report.
ConflictPaths == {"c.md"}

VARIABLES
    \* --- host / settings
    desktop,                \* adapter instanceof FileSystemAdapter, !Platform.isMobileApp
    settings,               \* [autoCommit, autoPush]
    loaded,                 \* between onload and onunload
    closed,                 \* the window has run beforeunload and is gone
    layoutReady,            \* workspace.onLayoutReady callback has run
    timers,                 \* live window.setTimeout timers: {[id, left]}
    \* --- AutoGitPlugin fields (main.ts:617-629)
    debounceTimer,          \* 0 = null, else the id of the timer
    isCommitting,
    pendingRerun,
    _hasConflicts,
    conflictFiles,
    resolveConflictCommand, \* TRUE = the command has been registered
    vaultEventRefs,         \* TRUE = the four vault listeners are registered
    beforeUnloadHandler,    \* TRUE = registered on window
    \* --- settings tab (part_004)
    resolveButton,          \* the "resolve conflicts" button is on the page
    \* --- async functions in flight
    commit,                 \* the runCommit attempt that holds isCommitting
    tasks,                  \* doPull, doPush, doRevert, resolve, checkConflicts
    \* --- the repository (working directory), as the subprocesses see it
    repo,                   \* [work, index, unmerged]
    \* --- history (not read by the program)
    lastCall,               \* what the last step returned or delivered, NoCall if nothing
    coalesced,              \* requests coalesced behind the attempt in flight (0, 1, 2 = many)
    rerunOwed,              \* a finished attempt had coalesced requests, no attempt since
    quiet,                  \* ticks since the last qualifying file event (capped)
    nQual,                  \* qualifying file events delivered
    closeRan,               \* subprocesses the beforeunload handler ran
    conflictReported,       \* a pull reported conflicts and was handled; not yet marked resolved
    \* --- the git layer called on its own (git.ts)
    probes,                 \* what the four probes of detectRepoState find
    git,                    \* the detectRepoState / pull call in flight or returned
    \* --- the status parsers (git.ts)
    stdout,                 \* the output of `git status --porcelain=v1 -z`, NUL-separated
    parsed,                 \* what getChangedFiles and getFileStatuses made of it
    \* --- GitStatusBadgeManager fields (part_002:10-22)
    enabled,
    pollInterval,
    fileStatuses,           \* Map path -> FileStatus
    folderStatuses,         \* Map folder -> FileStatus
    trackedFiles,
    trackedLoaded,
    conflicts,
    pollId,                 \* the live interval timers set by start (0 = the field is null)
    retryId,                \* 0 = null, else 1 + the retry count the pending timeout carries
    rafId,                  \* the animation frames requested and not yet run (0 = the field is null)
    observer,               \* "none" = the field is null, else the MutationObserver is
                            \* "attached" to the container in the document or "detached":
                            \* on a container that has left the document
    \* --- the plugin's own badges (main.ts:620-629)
    currentStatuses,        \* Map path -> FileStatus of the last status query
    previousStatuses,       \* Map path -> FileStatus the last update drew from
    mutationObserver,       \* TRUE = observing .nav-files-container
    rows,                   \* paths whose rows are in the document
    \* --- what the status engine and the badges work on
    refreshing,             \* the refresh() / refreshStatusBadges() calls awaiting their
                            \* queries, in the order they started: what the queries have
                            \* read, if they have run
    container,              \* .nav-files-container is in the document
    badges,                 \* Map row path -> status of the badge on the row's element
    tree,                   \* the working tree: path -> [exists, changed]
    head                    \* paths in the last commit

hostVars   == <<desktop, settings, loaded, closed, layoutReady, timers>>
pluginVars == <<debounceTimer, isCommitting, pendingRerun, _hasConflicts, conflictFiles,
                resolveConflictCommand, vaultEventRefs, beforeUnloadHandler, resolveButton>>
taskVars   == <<commit, tasks, repo>>
histRest   == <<coalesced, rerunOwed, quiet, nQual, closeRan, conflictReported>>
histVars   == <<lastCall, histRest>>
gitVars    == <<probes, git>>
parseVars  == <<stdout, parsed>>
engineVars == <<enabled, pollInterval, fileStatuses, folderStatuses, trackedFiles,
                trackedLoaded, conflicts, pollId, retryId, rafId, observer>>
badgeVars  == <<currentStatuses, previousStatuses, mutationObserver, rows>>
worldVars  == <<refreshing, container, badges, tree, head>>
libVars    == <<gitVars, parseVars, engineVars, badgeVars, worldVars>>
orchVars   == <<hostVars, pluginVars, taskVars, histVars>>
vars       == <<orchVars, libVars>>

\* ------------------------------------------------------------------ values
Min(a, b) == IF a < b THEN a ELSE b

\* Entry points that run as async functions besides runCommit.
TaskKinds == {"pull", "push", "cpush", "revert", "resolve", "check", "toggle"}

IdleTask == [pc |-> "idle", src |-> "-", notices |-> <<>>]

IdleCommit == [pc |-> "idle", reason |-> "-", andPush |-> FALSE, n |-> 0,
               created |-> FALSE, notices |-> <<>>, procs |-> <<>>]

NoCall == [op |-> "none", who |-> "-", ret |-> FALSE, path |-> "-",
           created |-> FALSE, notices |-> <<>>, procs |-> <<>>, k |-> 0]

\* The record of a call that returns in this step (or of the event it handles);
\* k flips so that two equal calls in a row are two steps.
Returned(op, who, ret, path, created, notices, procs) ==
    [op |-> op, who |-> who, ret |-> ret, path |-> path, created |-> created,
     notices |-> notices, procs |-> procs, k |-> 1 - lastCall.k]

\* Another entry point may start.
CanStart == Cardinality({k \in TaskKinds : tasks[k].pc # "idle"}) < MaxInFlight

\* Nothing returns in this step.
Silent == lastCall' = NoCall

\* ------------------------------------------------------------------ the layers at rest
\* The four probes of detectRepoState, in the order of the code (git.ts:174-193).
ProbeNames == <<"isGitRepo", "hasCommit", "getRemoteUrl", "hasUpstream">>

\* No pull result yet.
NoResult == [success |-> FALSE, hasConflicts |-> FALSE, notReady |-> FALSE, message |-> "-"]

\* No call of the git layer in flight.
IdleGit == [op |-> "-", pc |-> "idle", procs |-> <<>>, state |-> "-", ret |-> "-",
            result |-> NoResult, texts |-> <<>>]

\* The git layer is not called.
GitIdle ==
    /\ probes = [n \in {ProbeNames[i] : i \in 1..4} \cup {"spawn"} |-> TRUE]
    /\ git = IdleGit

\* A Map with no entries.
EmptyMap == [q \in {} |-> ""]

\* Nothing parsed yet.
NotParsed == [done |-> FALSE, ok |-> FALSE, files |-> <<>>, syncFiles |-> <<>>,
              statuses |-> EmptyMap]

\* The parsers are not called.
ParseIdle ==
    /\ stdout = <<>>
    /\ parsed = NotParsed

\* A refresh() whose queries have not run yet.
NotRead == [read |-> FALSE, statusOk |-> FALSE, trackedOk |-> FALSE, statuses |-> EmptyMap]

\* GitStatusBadgeManager as constructed (part_002:10-24), the file explorer empty.
EngineNew ==
    /\ enabled = FALSE
    /\ pollInterval = 0
    /\ fileStatuses = EmptyMap
    /\ folderStatuses = EmptyMap
    /\ trackedFiles = {}
    /\ trackedLoaded = FALSE
    /\ conflicts = {}
    /\ pollId = 0
    /\ retryId = 0
    /\ rafId = 0
    /\ observer = "none"
    /\ refreshing = <<>>
    /\ badges = EmptyMap

\* The plugin's badge fields as constructed (main.ts:620-629), no row in the
\* document.
BadgesNew ==
    /\ currentStatuses = EmptyMap
    /\ previousStatuses = EmptyMap
    /\ mutationObserver = FALSE
    /\ rows = {}

\* The status engine is not used.
EngineIdle ==
    /\ EngineNew
    /\ container = FALSE
    /\ tree = EmptyMap
    /\ head = {}

\* ------------------------------------------------------------------ timers
\* window.setTimeout hands out an id no live timer has.
FreshId(live) == CHOOSE i \in 1..(Cardinality(live) + 1) : \A t \in live : t.id # i

\* The live timers once window.clearTimeout(debounceTimer) has run.
Cleared == {t \in timers : t.id # debounceTimer}

\* clearDebounce (main.ts:799-804).
clearDebounce ==
    /\ timers' = Cleared
    /\ debounceTimer' = 0

\* A scheduleCommit that does not clear the armed timer first.
scheduleCommit_NoClear ==
    /\ timers' = timers \cup {[id |-> FreshId(timers), left |-> DebounceTicks]}
    /\ debounceTimer' = FreshId(timers)

\* scheduleCommit (main.ts:791-797): clearDebounce, then arm a new timer.
scheduleCommit ==
    /\ timers' = Cleared \cup {[id |-> FreshId(Cleared), left |-> DebounceTicks]}
    /\ debounceTimer' = FreshId(Cleared)

\* ------------------------------------------------------------------ the repository
\* What `git status --porcelain=v1 -z` lists: getChangedFiles(...).length.
ChangedCount == IF repo.work \/ repo.index \/ repo.unmerged # {} THEN 1 ELSE 0

\* `git add -A`: everything is staged, unmerged paths included.
Staged == [work |-> FALSE, index |-> repo.index \/ repo.work \/ repo.unmerged # {},
           unmerged |-> {}]
\* ------------------------------------------------------------------ conflicts
\* A setter that can raise the conflict flag but never lowers it.
setHasConflicts_Sticky(value, files) ==
    /\ _hasConflicts' = (_hasConflicts \/ value)
    /\ resolveConflictCommand' = (resolveConflictCommand \/ value)
    /\ conflictFiles' = IF value THEN files ELSE conflictFiles

\* setHasConflicts(value) (main.ts:1030-1058); files is conflictFiles at the call.
setHasConflicts(value, files) ==
    /\ _hasConflicts' = value
    /\ resolveConflictCommand' = (resolveConflictCommand \/ value)
    /\ conflictFiles' = IF value THEN files ELSE {}

\* ------------------------------------------------------------------ runCommit
\* A gate that is always open.
ConflictGate_Open == FALSE

\* runCommit's first test (main.ts:824).
ConflictGate == _hasConflicts

\* runCommit's second test (main.ts:831).
InFlight == isCommitting

\* A "no changes" notice shown whatever the reason.
NoChangesNotice_Always(reason) == <<"noChanges">>

\* The notice of runCommit's `changedFiles.length === 0` branch (main.ts:846-848).
NoChangesNotice(reason) == IF reason = "manual" THEN <<"noChanges">> ELSE <<>>

\* runCommit(reason) up to its first await (main.ts:822-844); andPush: the caller is
\* "Commit and push" (main.ts:646-651, 924-929).  The caller owns the timer variables.
runCommit(reason, andPush) ==
    IF ConflictGate
    THEN /\ lastCall' = Returned("commit", reason, FALSE, "conflict", FALSE,
                                 IF reason = "manual" THEN <<"cannotCommitConflict">>
                                 ELSE <<>>, <<>>)
         /\ UNCHANGED <<isCommitting, pendingRerun, commit, coalesced, rerunOwed>>
    ELSE IF InFlight
    THEN /\ pendingRerun' = TRUE
         /\ coalesced' = Min(coalesced + 1, 2)
         /\ lastCall' = Returned("commit", reason, FALSE, "coalesced", FALSE, <<>>, <<>>)
         /\ UNCHANGED <<isCommitting, commit, rerunOwed>>
    ELSE IF ~desktop
    THEN \* getVaultPath throws (main.ts:808-810): catch, finally, return false
         /\ isCommitting' = FALSE
         /\ pendingRerun' = FALSE
         /\ rerunOwed' = FALSE
         /\ lastCall' = Returned("commit", reason, FALSE, "noVaultPath", FALSE,
                                 <<"autoGitError">>, <<>>)
         /\ UNCHANGED <<commit, coalesced>>
    ELSE /\ isCommitting' = TRUE
         /\ pendingRerun' = FALSE
         /\ rerunOwed' = FALSE
         /\ commit' = [IdleCommit EXCEPT !.pc = "status", !.reason = reason,
                                         !.andPush = andPush, !.procs = <<"status">>]
         /\ lastCall' = Returned("commit", reason, FALSE, "started", FALSE, <<>>,
                                 <<"status">>)
         /\ UNCHANGED coalesced

\* doPush() up to its first await, on desktop (main.ts:887-890, git.ts:238-239).
StartedPush(src) == [pc |-> "branch", src |-> src, notices |-> <<>>]

\* A finally block that leaves the in-flight flag set.
ReleaseInFlight_Keep == isCommitting

\* runCommit's finally block, first statement (main.ts:878).
ReleaseInFlight == FALSE

\* A finally block that never re-schedules.
RerunWanted_Never == FALSE

\* runCommit's finally block, the test of its second statement (main.ts:879).
RerunWanted == pendingRerun

\* The end of an attempt: catch / finally / return (main.ts:875-884), and the
\* continuation of "Commit and push" (main.ts:648-650), whose doPush task carries
\* the notices the invocation has shown so far.
Finish(ret, path, created, more) ==
    /\ isCommitting' = ReleaseInFlight
    /\ IF RerunWanted THEN scheduleCommit ELSE UNCHANGED <<timers, debounceTimer>>
    /\ commit' = IdleCommit
    /\ lastCall' = Returned("commit", commit.reason, ret, path, created,
                            commit.notices \o more, commit.procs)
    /\ rerunOwed' = (coalesced > 0)
    /\ coalesced' = 0
    /\ tasks' = IF ret /\ commit.andPush
                THEN [tasks EXCEPT !["cpush"] =
                         [StartedPush("commitAndPush") EXCEPT
                             !.notices = commit.notices \o more]]
                ELSE tasks
    /\ UNCHANGED pendingRerun


\* ------------------------------------------------------------------ the attempt in flight
\* `git status` completes (main.ts:844-850, git.ts:200-222).
CommitStatusDone ==
    /\ ~closed /\ commit.pc = "status"
    /\ \E ok \in BOOLEAN :
        IF ~ok
        THEN Finish(FALSE, "statusFailed", FALSE, <<"autoGitError">>)
        ELSE IF ChangedCount = 0
        THEN Finish(FALSE, "noChanges", FALSE, NoChangesNotice(commit.reason))
        ELSE /\ commit' = [commit EXCEPT !.pc = "add", !.n = ChangedCount,
                                         !.procs = @ \o <<"add">>]
             /\ Silent
             /\ UNCHANGED <<isCommitting, pendingRerun, timers, debounceTimer, tasks,
                            coalesced, rerunOwed>>
    /\ UNCHANGED <<desktop, settings, loaded, closed, layoutReady, _hasConflicts,
                   conflictFiles, resolveConflictCommand, vaultEventRefs,
                   beforeUnloadHandler, resolveButton, repo, quiet, nQual,
                   closeRan, conflictReported>>
    /\ UNCHANGED libVars

\* `git add -A` of commitAll completes (git.ts:225-228).
CommitAddDone ==
    /\ ~closed /\ commit.pc = "add"
    /\ \E ok \in BOOLEAN :
        IF ~ok
        THEN /\ Finish(FALSE, "addFailed", FALSE, <<"autoGitError">>)
             /\ UNCHANGED repo
        ELSE /\ repo' = Staged
             /\ commit' = [commit EXCEPT !.pc = "commit", !.procs = @ \o <<"commit">>]
             /\ Silent
             /\ UNCHANGED <<isCommitting, pendingRerun, timers, debounceTimer, tasks,
                            coalesced, rerunOwed>>
    /\ UNCHANGED <<desktop, settings, loaded, closed, layoutReady, _hasConflicts,
                   conflictFiles, resolveConflictCommand, vaultEventRefs,
                   beforeUnloadHandler, resolveButton, quiet, nQual,
                   closeRan, conflictReported>>
    /\ UNCHANGED libVars

\* How `git commit -m` can end: "created" needs staged changes; with none staged it
\* fails, and the failure text names "nothing to commit" / "no changes added" or not.
CommitOutcomes == IF repo.index THEN {"created", "failed"} ELSE {"nothing", "failed"}

\* A commitAll that returns normally whatever `git commit` did.
CommitAllReturns_Always(out) == TRUE

\* commitAll returns normally (git.ts:227-235): the commit succeeded, or its failure
\* text includes "nothing to commit" / "no changes added".
CommitAllReturns(out) == out \in {"created", "nothing"}

\* `git commit` of commitAll completes (git.ts:227-235, main.ts:865-874).
CommitCommitDone ==
    /\ ~closed /\ commit.pc = "commit"
    /\ \E out \in CommitOutcomes :
        /\ repo' = IF out = "created" THEN [repo EXCEPT !.index = FALSE] ELSE repo
        /\ IF ~CommitAllReturns(out)
           THEN Finish(FALSE, "commitFailed", FALSE, <<"autoGitError">>)
           ELSE IF settings.autoPush
           THEN /\ commit' = [commit EXCEPT !.pc = "branch", !.created = (out = "created"),
                                            !.notices = @ \o <<"committed">>,
                                            !.procs = @ \o <<"branch">>]
                /\ Silent
                /\ UNCHANGED <<isCommitting, pendingRerun, timers, debounceTimer, tasks,
                               coalesced, rerunOwed>>
           ELSE Finish(TRUE, "committed", out = "created", <<"committed">>)
    /\ UNCHANGED <<desktop, settings, loaded, closed, layoutReady, _hasConflicts,
                   conflictFiles, resolveConflictCommand, vaultEventRefs,
                   beforeUnloadHandler, resolveButton, quiet, nQual,
                   closeRan, conflictReported>>
    /\ UNCHANGED libVars

\* getCurrentBranch of the auto-push completes (git.ts:238-240, main.ts:887-895).
CommitBranchDone ==
    /\ ~closed /\ commit.pc = "branch"
    /\ \E ok \in BOOLEAN :
        IF ~ok
        THEN Finish(TRUE, "pushFailed", commit.created, <<"pushFailed">>)
        ELSE /\ commit' = [commit EXCEPT !.pc = "push", !.procs = @ \o <<"push">>]
             /\ Silent
             /\ UNCHANGED <<isCommitting, pendingRerun, timers, debounceTimer, tasks,
                            coalesced, rerunOwed>>
    /\ UNCHANGED <<desktop, settings, loaded, closed, layoutReady, _hasConflicts,
                   conflictFiles, resolveConflictCommand, vaultEventRefs,
                   beforeUnloadHandler, resolveButton, repo, quiet, nQual,
                   closeRan, conflictReported>>
    /\ UNCHANGED libVars

\* `git push -u origin <branch>` of the auto-push completes (main.ts:869-884).
CommitPushDone ==
    /\ ~closed /\ commit.pc = "push"
    /\ \E ok \in BOOLEAN :
        IF ok
        THEN Finish(TRUE, "pushed", commit.created, <<"pushed">>)
        ELSE Finish(TRUE, "pushFailed", commit.created, <<"pushFailed">>)
    /\ UNCHANGED <<desktop, settings, loaded, closed, layoutReady, _hasConflicts,
                   conflictFiles, resolveConflictCommand, vaultEventRefs,
                   beforeUnloadHandler, resolveButton, repo, quiet, nQual,
                   closeRan, conflictReported>>
    /\ UNCHANGED libVars

\* ------------------------------------------------------------------ requests
\* "Commit now" (main.ts:640, 918; part_004:413-415) and "Commit and push"
\* (main.ts:646-651, 924-929).
ManualCommit(andPush) ==
    /\ ~closed /\ loaded
    /\ andPush => tasks["cpush"].pc = "idle"
    /\ runCommit("manual", andPush)
    /\ UNCHANGED <<desktop, settings, loaded, closed, layoutReady, timers, debounceTimer,
                   _hasConflicts, conflictFiles, resolveConflictCommand, vaultEventRefs,
                   beforeUnloadHandler, resolveButton, tasks, repo, quiet, nQual,
                   closeRan, conflictReported>>
    /\ UNCHANGED libVars

\* The debounce timer's callback (main.ts:793-796).
TimerFire ==
    /\ ~closed
    /\ \E t \in timers :
        /\ t.left = 0
        /\ timers' = timers \ {t}
    /\ debounceTimer' = 0
    /\ runCommit("auto", FALSE)
    /\ UNCHANGED <<desktop, settings, loaded, closed, layoutReady,
                   _hasConflicts, conflictFiles, resolveConflictCommand, vaultEventRefs,
                   beforeUnloadHandler, resolveButton, tasks, repo, quiet, nQual,
                   closeRan, conflictReported>>
    /\ UNCHANGED libVars

\* The clock advances by one tick.
Tick ==
    /\ ~closed
    /\ timers' = {[t EXCEPT !.left = IF @ > 0 THEN @ - 1 ELSE 0] : t \in timers}
    /\ quiet' = Min(quiet + 1, DebounceTicks)
    /\ timers' # timers \/ quiet' # quiet
    /\ Silent
    /\ UNCHANGED <<desktop, settings, loaded, closed, layoutReady, pluginVars, taskVars,
                   coalesced, rerunOwed, nQual, closeRan,
                   conflictReported>>
    /\ UNCHANGED libVars

\* shouldIgnore (main.ts:782-789) and the TFile test (main.ts:770), by the kind of
\* the event's file: a note, a folder, a path under .git/ or the config directory.
Qualifies(kind) == kind = "file"

\* The body of onFileChange after its two early returns (main.ts:773-779).
OnQualifying ==
    IF settings.autoCommit THEN scheduleCommit ELSE UNCHANGED <<timers, debounceTimer>>

\* A vault create / modify / delete / rename event reaches onFileChange
\* (main.ts:761-780).
FileChange(kind) ==
    /\ ~closed /\ vaultEventRefs
    /\ IF Qualifies(kind)
       THEN /\ nQual < MaxEvents
            /\ nQual' = nQual + 1
            /\ quiet' = IF settings.autoCommit THEN 0 ELSE quiet
            /\ OnQualifying
       ELSE UNCHANGED <<timers, debounceTimer, nQual, quiet>>
    /\ lastCall' = Returned("event", kind, FALSE, "-", FALSE, <<>>, <<>>)
    /\ repo' = IF kind = "folder" THEN repo ELSE [repo EXCEPT !.work = TRUE]
    /\ UNCHANGED <<desktop, settings, loaded, closed, layoutReady, isCommitting,
                   pendingRerun, _hasConflicts, conflictFiles, resolveConflictCommand,
                   vaultEventRefs, beforeUnloadHandler, resolveButton, commit, tasks,
                   coalesced, rerunOwed, closeRan, conflictReported>>
    /\ UNCHANGED libVars


\* ------------------------------------------------------------------ settings, lifecycle
\* The "Enable auto commit" toggle, up to `await saveSettings()` (part_004:92-94).
ToggleAutoCommit ==
    /\ ~closed /\ loaded /\ tasks["toggle"].pc = "idle" /\ CanStart
    /\ settings' = [settings EXCEPT !.autoCommit = ~@]
    /\ tasks' = [tasks EXCEPT !["toggle"] = [IdleTask EXCEPT !.pc = "save"]]
    /\ Silent
    /\ UNCHANGED <<desktop, loaded, closed, layoutReady, timers, pluginVars, commit, repo,
                   histRest>>
    /\ UNCHANGED libVars

\* saveSettings completes: resetVaultListeners (part_004:95, main.ts:744-767).
ToggleSaved ==
    /\ ~closed /\ tasks["toggle"].pc = "save"
    /\ clearDebounce
    /\ vaultEventRefs' = desktop
    /\ tasks' = [tasks EXCEPT !["toggle"] = IdleTask]
    /\ Silent
    /\ UNCHANGED <<desktop, settings, loaded, closed, layoutReady, isCommitting,
                   pendingRerun, _hasConflicts, conflictFiles, resolveConflictCommand,
                   beforeUnloadHandler, resolveButton, commit, repo, histRest>>
    /\ UNCHANGED libVars

\* onunload (main.ts:710-734); the host drops the commands and the settings tab.
Unload ==
    /\ ~closed /\ loaded
    /\ loaded' = FALSE
    /\ clearDebounce
    /\ vaultEventRefs' = FALSE
    /\ beforeUnloadHandler' = FALSE
    /\ resolveButton' = FALSE
    /\ Silent
    /\ UNCHANGED <<desktop, settings, closed, layoutReady, isCommitting, pendingRerun,
                   _hasConflicts, conflictFiles, resolveConflictCommand, taskVars,
                   histRest>>
    /\ UNCHANGED libVars

\* Runs of a close handler that spawns the push although the commit failed.
CloseRuns_PushAnyway ==
    {<<>>, <<"status">>, <<"status", "add">>, <<"status", "add", "commit">>,
     <<"status", "add", "commit", "push">>, <<"status", "add", "push">>}

\* What the beforeunload handler ran (main.ts:680-702, git.ts:518-564), by how far
\* it got: commitOnClose off; the status query failed or listed nothing; `add -A`
\* failed; `commit` failed; the commit succeeded and the push was spawned detached.
CloseRuns == {<<>>, <<"status">>, <<"status", "add">>, <<"status", "add", "commit">>,
              <<"status", "add", "commit", "push">>}

\* The window closes: the beforeunload handler runs to its end, blocking the event
\* loop, and the renderer is gone.  The subprocess an async function awaits keeps
\* running meanwhile.
BeforeUnload ==
    /\ ~closed
    /\ closed' = TRUE
    /\ IF ~beforeUnloadHandler
       THEN UNCHANGED <<closeRan, repo>>
       ELSE \E ran \in CloseRuns :
            /\ Len(ran) >= 2 => ChangedCount > 0
            /\ Len(ran) = 4 => Staged.index
            /\ closeRan' = ran
            /\ repo' = IF Len(ran) = 4 THEN [Staged EXCEPT !.index = FALSE]
                       ELSE IF Len(ran) = 3 THEN Staged
                       ELSE repo
    /\ Silent
    /\ UNCHANGED <<desktop, settings, loaded, layoutReady, timers, pluginVars, commit,
                   tasks, coalesced, rerunOwed, quiet, nQual,
                   conflictReported>>
    /\ UNCHANGED libVars

\* ------------------------------------------------------------------ conflicts, pull
\* The result of getConflictFiles (git.ts:282-289): the unmerged paths, or [] when
\* the subprocess fails.
ConflictList(ok) == IF ok THEN repo.unmerged ELSE {}

\* checkConflicts after its await (main.ts:1024-1027).
checkConflictsDone(ok) == setHasConflicts(ConflictList(ok) # {}, ConflictList(ok))

\* The startup checkConflicts completes (main.ts:707, 1020-1028).
CheckDone ==
    /\ ~closed /\ tasks["check"].pc = "check"
    /\ \E ok \in BOOLEAN : checkConflictsDone(ok)
    /\ tasks' = [tasks EXCEPT !["check"] = IdleTask]
    /\ Silent
    /\ UNCHANGED <<hostVars, debounceTimer, isCommitting, pendingRerun, vaultEventRefs,
                   beforeUnloadHandler, resolveButton, commit, repo, histRest>>
    /\ UNCHANGED libVars

\* doPull up to its await (main.ts:998-1006): "Pull now", the ribbon menu, and
\* auto-pull on open.
StartPull(src) ==
    /\ tasks["pull"].pc = "idle" /\ CanStart
    /\ IF ~desktop
       THEN /\ lastCall' = Returned("pull", src, FALSE, "mobile", FALSE,
                                    <<"mobileNotSupported">>, <<>>)
            /\ UNCHANGED tasks
       ELSE /\ tasks' = [tasks EXCEPT !["pull"] = [IdleTask EXCEPT !.pc = "pull",
                                                                  !.src = src]]
            /\ Silent

\* "Pull now" and the ribbon's Pull (main.ts:657, 915).
PullNow ==
    /\ ~closed /\ loaded
    /\ StartPull("command")
    /\ UNCHANGED <<hostVars, pluginVars, commit, repo, coalesced, rerunOwed, quiet, nQual,
                   closeRan, conflictReported>>
    /\ UNCHANGED libVars

\* The settings tab's Pull button (part_004:391-393); the repository section is
\* drawn only with a vault path (part_004:351-355).
SettingsPull ==
    /\ ~closed /\ loaded /\ desktop
    /\ StartPull("settings")
    /\ UNCHANGED <<hostVars, pluginVars, commit, repo, coalesced, rerunOwed, quiet, nQual,
                   closeRan, conflictReported>>
    /\ UNCHANGED libVars

\* workspace.onLayoutReady (main.ts:670-676); autoPullOnOpen is read here only.
LayoutReady ==
    /\ ~closed /\ loaded /\ ~layoutReady
    /\ layoutReady' = TRUE
    /\ \E autoPullOnOpen \in BOOLEAN :
        IF autoPullOnOpen /\ desktop
        THEN StartPull("open")
        ELSE /\ Silent
             /\ UNCHANGED tasks
    /\ UNCHANGED <<desktop, settings, loaded, closed, timers, pluginVars, commit, repo,
                   coalesced, rerunOwed, quiet, nQual, closeRan,
                   conflictReported>>
    /\ UNCHANGED libVars

\* How pull() can end (git.ts:250-280): not ready, pulled, a merge conflict, or a
\* failure that is thrown.  A repository with unmerged paths refuses to pull.
PullOutcomes ==
    IF repo.unmerged # {} THEN {"notReady", "failed"}
    ELSE {"notReady", "pulled", "conflict", "failed"}

\* The notices of doPull for a result without conflicts (main.ts:1011-1017).
doPullNotices(out) ==
    IF out = "pulled" THEN <<"pulled">>
    ELSE IF out = "failed" THEN <<"pullFailed">>
    ELSE <<>>

\* The notices of the settings Pull button for a result without conflicts
\* (part_004:398-404).
settingsPullNotices(out) ==
    IF out = "failed" THEN <<"pullFailed">> ELSE <<"pulled">>

\* pull() completes (main.ts:1006-1017, part_004:393-404).
PullDone ==
    /\ ~closed /\ tasks["pull"].pc = "pull"
    /\ \E out \in PullOutcomes :
        IF out = "conflict"
        THEN /\ repo' = [repo EXCEPT !.unmerged = ConflictPaths]
             /\ IF tasks["pull"].src = "settings"
                THEN \* setHasConflicts(true); Notice; display()
                     /\ setHasConflicts(TRUE, conflictFiles)
                     /\ resolveButton' = TRUE
                     /\ conflictReported' = TRUE
                     /\ lastCall' = Returned("pull", "settings", FALSE, "conflict", FALSE,
                                             <<"conflictDetected">>, <<>>)
                     /\ tasks' = [tasks EXCEPT !["pull"] = IdleTask]
                ELSE \* await this.checkConflicts()
                     /\ tasks' = [tasks EXCEPT !["pull"].pc = "check"]
                     /\ Silent
                     /\ UNCHANGED <<_hasConflicts, conflictFiles, resolveConflictCommand,
                                    resolveButton, conflictReported>>
        ELSE /\ lastCall' = Returned("pull", tasks["pull"].src, out = "pulled", out, FALSE,
                                     IF tasks["pull"].src = "settings"
                                     THEN settingsPullNotices(out)
                                     ELSE doPullNotices(out), <<>>)
             /\ tasks' = [tasks EXCEPT !["pull"] = IdleTask]
             /\ UNCHANGED <<_hasConflicts, conflictFiles, resolveConflictCommand,
                            resolveButton, conflictReported, repo>>
    /\ UNCHANGED <<hostVars, debounceTimer, isCommitting, pendingRerun, vaultEventRefs,
                   beforeUnloadHandler, commit, coalesced, rerunOwed, quiet, nQual,
                   closeRan>>
    /\ UNCHANGED libVars

\* The checkConflicts awaited by doPull completes (main.ts:1008-1010, 1020-1028).
PullCheckDone ==
    /\ ~closed /\ tasks["pull"].pc = "check"
    /\ \E ok \in BOOLEAN : checkConflictsDone(ok)
    /\ conflictReported' = TRUE
    /\ lastCall' = Returned("pull", tasks["pull"].src, FALSE, "conflict", FALSE,
                            <<"conflictDetected">>, <<>>)
    /\ tasks' = [tasks EXCEPT !["pull"] = IdleTask]
    /\ UNCHANGED <<hostVars, debounceTimer, isCommitting, pendingRerun, vaultEventRefs,
                   beforeUnloadHandler, resolveButton, commit, repo, coalesced, rerunOwed,
                   quiet, nQual, closeRan>>
    /\ UNCHANGED libVars

\* The settings tab is opened or redrawn: displayRepoSection probes hasConflicts
\* (part_004:358-362, 452-453).
SettingsDisplay ==
    /\ ~closed /\ loaded /\ desktop
    /\ resolveButton' = (repo.unmerged # {})
    /\ resolveButton' # resolveButton
    /\ Silent
    /\ UNCHANGED <<hostVars, debounceTimer, isCommitting, pendingRerun, _hasConflicts,
                   conflictFiles, resolveConflictCommand, vaultEventRefs,
                   beforeUnloadHandler, taskVars, histRest>>
    /\ UNCHANGED libVars

\* "Mark conflicts as resolved": the command (main.ts:1039-1043) or the settings
\* button (part_004:461-463), up to the await of markConflictsResolved.
StartResolve(src) ==
    /\ ~closed /\ loaded /\ desktop /\ tasks["resolve"].pc = "idle" /\ CanStart
    /\ IF src = "command" THEN resolveConflictCommand ELSE resolveButton
    /\ tasks' = [tasks EXCEPT !["resolve"] = [IdleTask EXCEPT !.pc = "add", !.src = src]]
    /\ Silent
    /\ UNCHANGED <<hostVars, pluginVars, commit, repo, histRest>>
    /\ UNCHANGED libVars

\* markConflictsResolved completes (main.ts:1043-1050, part_004:463-469).
ResolveDone ==
    /\ ~closed /\ tasks["resolve"].pc = "add"
    /\ \E ok \in BOOLEAN :
        IF ok
        THEN /\ repo' = Staged
             /\ setHasConflicts(FALSE, {})
             /\ resolveButton' = IF tasks["resolve"].src = "settings" THEN FALSE
                                 ELSE resolveButton
             /\ conflictReported' = FALSE
             /\ lastCall' = Returned("resolve", tasks["resolve"].src, TRUE, "resolved",
                                     FALSE, <<"conflictResolved">>, <<>>)
        ELSE /\ lastCall' = Returned("resolve", tasks["resolve"].src, FALSE, "failed",
                                     FALSE, <<"error">>, <<>>)
             /\ UNCHANGED <<repo, _hasConflicts, conflictFiles, resolveConflictCommand,
                            resolveButton, conflictReported>>
    /\ tasks' = [tasks EXCEPT !["resolve"] = IdleTask]
    /\ UNCHANGED <<hostVars, debounceTimer, isCommitting, pendingRerun, vaultEventRefs,
                   beforeUnloadHandler, commit, coalesced, rerunOwed, quiet, nQual,
                   closeRan>>
    /\ UNCHANGED libVars


\* ------------------------------------------------------------------ push
\* "Push now", the ribbon's Push, the settings Push button (main.ts:663, 921;
\* part_004:422-424): doPush up to its first await.
PushNow ==
    /\ ~closed /\ loaded /\ tasks["push"].pc = "idle" /\ CanStart
    /\ IF ~desktop
       THEN /\ lastCall' = Returned("push", "command", FALSE, "noVaultPath", FALSE,
                                    <<"pushFailed">>, <<>>)
            /\ UNCHANGED tasks
       ELSE /\ tasks' = [tasks EXCEPT !["push"] = StartedPush("command")]
            /\ Silent
    /\ UNCHANGED <<hostVars, pluginVars, commit, repo, coalesced, rerunOwed, quiet, nQual,
                   closeRan, conflictReported>>
    /\ UNCHANGED libVars

\* A subprocess of a doPush that is not part of an attempt completes: getCurrentBranch,
\* then `push -u origin <branch>` (git.ts:238-241, main.ts:887-895).
PushStep(kind) ==
    /\ ~closed /\ tasks[kind].pc \in {"branch", "push"}
    /\ \E ok \in BOOLEAN :
        IF ok /\ tasks[kind].pc = "branch"
        THEN /\ tasks' = [tasks EXCEPT ![kind].pc = "push"]
             /\ Silent
        ELSE /\ tasks' = [tasks EXCEPT ![kind] = IdleTask]
             /\ lastCall' = Returned("push", tasks[kind].src, ok,
                                     IF ok THEN "pushed" ELSE "pushFailed", FALSE,
                                     IF ok THEN <<"pushed">> ELSE <<"pushFailed">>, <<>>)
    /\ UNCHANGED <<hostVars, pluginVars, commit, repo, coalesced, rerunOwed, quiet, nQual,
                   closeRan, conflictReported>>
    /\ UNCHANGED libVars

\* ------------------------------------------------------------------ revert
\* The ribbon's "Revert all" (main.ts:933, 939-942); the ribbon is desktop only
\* (main.ts:898).
RevertAll ==
    /\ ~closed /\ loaded /\ desktop /\ tasks["revert"].pc = "idle" /\ CanStart
    /\ tasks' = [tasks EXCEPT !["revert"] = [IdleTask EXCEPT !.pc = "status"]]
    /\ Silent
    /\ UNCHANGED <<hostVars, pluginVars, commit, repo, histRest>>
    /\ UNCHANGED libVars

\* getChangedFiles of doRevert completes (main.ts:942-962).
RevertStatusDone ==
    /\ ~closed /\ tasks["revert"].pc = "status"
    /\ \E ok \in BOOLEAN :
        IF ok /\ ChangedCount > 0
        THEN /\ tasks' = [tasks EXCEPT !["revert"].pc = "modal"]
             /\ Silent
        ELSE /\ tasks' = [tasks EXCEPT !["revert"] = IdleTask]
             /\ lastCall' = Returned("revert", "ribbon", FALSE,
                                     IF ok THEN "noChanges" ELSE "failed", FALSE,
                                     IF ok THEN <<"revertNoChanges">>
                                     ELSE <<"revertFailed">>, <<>>)
    /\ UNCHANGED <<hostVars, pluginVars, commit, repo, coalesced, rerunOwed, quiet, nQual,
                   closeRan, conflictReported>>
    /\ UNCHANGED libVars

\* The user answers RevertConfirmModal (main.ts:949-959): confirm starts revertAll,
\* anything else closes the modal.
RevertModal(confirm) ==
    /\ ~closed /\ tasks["revert"].pc = "modal"
    /\ tasks' = [tasks EXCEPT !["revert"] =
                    IF confirm THEN [@ EXCEPT !.pc = "checkout"] ELSE IdleTask]
    /\ Silent
    /\ UNCHANGED <<hostVars, pluginVars, commit, repo, histRest>>
    /\ UNCHANGED libVars

\* A subprocess of revertAll completes: `checkout -- .`, then `clean -fd`
\* (git.ts:331-334, main.ts:951-957).
RevertStep ==
    /\ ~closed /\ tasks["revert"].pc \in {"checkout", "clean"}
    /\ \E ok \in BOOLEAN :
        IF ok /\ tasks["revert"].pc = "checkout"
        THEN /\ tasks' = [tasks EXCEPT !["revert"].pc = "clean"]
             /\ Silent
             /\ UNCHANGED <<repo>>
        ELSE /\ tasks' = [tasks EXCEPT !["revert"] = IdleTask]
             /\ repo' = IF ok THEN [repo EXCEPT !.work = FALSE] ELSE repo
             /\ lastCall' = Returned("revert", "ribbon", ok,
                                     IF ok THEN "reverted" ELSE "failed", FALSE,
                                     IF ok THEN <<"reverted">> ELSE <<"revertFailed">>,
                                     <<>>)
    /\ UNCHANGED <<hostVars, pluginVars, commit, coalesced, rerunOwed, quiet, nQual,
                   closeRan, conflictReported>>
    /\ UNCHANGED libVars

\* ------------------------------------------------------------------ specification
\* The state when onload returns (main.ts:632-708): listeners and the beforeunload
\* handler registered on desktop, the startup checkConflicts awaiting
\* getConflictFiles, nothing else in flight; the platform, the settings and the
\* repository drawn from the given sets.
Start(desktops, settingses, repos) ==
    /\ desktop \in desktops
    /\ settings \in settingses
    /\ repo \in repos
    /\ loaded = TRUE
    /\ closed = FALSE
    /\ layoutReady = FALSE
    /\ timers = {}
    /\ debounceTimer = 0
    /\ isCommitting = FALSE
    /\ pendingRerun = FALSE
    /\ _hasConflicts = FALSE
    /\ conflictFiles = {}
    /\ resolveConflictCommand = FALSE
    /\ vaultEventRefs = desktop
    /\ beforeUnloadHandler = desktop
    /\ resolveButton = FALSE
    /\ commit = IdleCommit
    /\ tasks = [k \in TaskKinds |->
                  IF k = "check" /\ desktop THEN [IdleTask EXCEPT !.pc = "check"]
                  ELSE IdleTask]
    /\ lastCall = NoCall
    /\ coalesced = 0
    /\ rerunOwed = FALSE
    /\ quiet = DebounceTicks
    /\ nQual = 0
    /\ closeRan = <<>>
    /\ conflictReported = FALSE

\* Any platform, any settings, a clean or dirty working tree, with or without
\* unmerged paths left by an earlier session.
Init ==
    /\ Start(BOOLEAN, [autoCommit : BOOLEAN, autoPush : BOOLEAN],
             [work : BOOLEAN, index : {FALSE}, unmerged : SUBSET ConflictPaths])
    /\ GitIdle /\ ParseIdle /\ EngineIdle /\ BadgesNew

CommitStep ==
    \/ CommitStatusDone
    \/ CommitAddDone
    \/ CommitCommitDone
    \/ CommitBranchDone
    \/ CommitPushDone

\* The commit orchestrator: requests, the debounce timer, the attempt in flight,
\* the conflict gate set by the startup check and opened by the resolve command,
\* the auto-commit toggle, unload and close.
Next ==
    \/ ManualCommit(FALSE)
    \/ TimerFire
    \/ Tick
    \/ \E kind \in {"file", "folder", "ignored"} : FileChange(kind)
    \/ CommitStep
    \/ ToggleAutoCommit
    \/ ToggleSaved
    \/ Unload
    \/ BeforeUnload
    \/ CheckDone
    \/ StartResolve("command")
    \/ ResolveDone

Spec == Init /\ [][Next]_vars

\* The conflict flow: every pull entry point, the startup check, both ways of
\* marking conflicts resolved, and manual commits against the gate.
NextConflict ==
    \/ ManualCommit(FALSE)
    \/ CommitStep
    \/ LayoutReady
    \/ CheckDone
    \/ PullNow
    \/ SettingsPull
    \/ PullDone
    \/ PullCheckDone
    \/ SettingsDisplay
    \/ \E src \in {"command", "settings"} : StartResolve(src)
    \/ ResolveDone

SpecConflict == Init /\ [][NextConflict]_vars

\* The user-triggered actions and the notices they show.
NextActions ==
    \/ \E andPush \in BOOLEAN : ManualCommit(andPush)
    \/ CommitStep
    \/ CheckDone
    \/ PullNow
    \/ SettingsPull
    \/ PullDone
    \/ PullCheckDone
    \/ StartResolve("command")
    \/ ResolveDone
    \/ PushNow
    \/ \E kind \in {"push", "cpush"} : PushStep(kind)
    \/ RevertAll
    \/ RevertStatusDone
    \/ \E confirm \in BOOLEAN : RevertModal(confirm)
    \/ RevertStep

SpecActions == Init /\ [][NextActions]_vars

\* Auto commit enabled, no conflict, the plugin loaded throughout.
InitLive ==
    /\ Start({TRUE}, [autoCommit : {TRUE}, autoPush : BOOLEAN],
             [work : BOOLEAN, index : {FALSE}, unmerged : {{}}])
    /\ GitIdle /\ ParseIdle /\ EngineIdle /\ BadgesNew

NextLive ==
    \/ ManualCommit(FALSE)
    \/ TimerFire
    \/ Tick
    \/ \E kind \in {"file", "folder", "ignored"} : FileChange(kind)
    \/ CommitStep
    \/ CheckDone

\* Timers fire, the clock advances and subprocesses complete.
SpecLive ==
    /\ InitLive
    /\ [][NextLive]_vars
    /\ WF_vars(TimerFire)
    /\ WF_vars(Tick)
    /\ WF_vars(CommitStep)
    /\ WF_vars(CheckDone)

\* ------------------------------------------------------------------ the git layer
\* The subprocess each probe runs (git.ts:302, 180, 315, 193).
ProbeProc ==
    [isGitRepo |-> "rev-parse --git-dir", hasCommit |-> "rev-parse HEAD",
     getRemoteUrl |-> "remote get-url origin", hasUpstream |-> "rev-parse --abbrev-ref @{u}"]

\* A table of returns with the second and third states exchanged.
StateOnFail_Swapped ==
    [isGitRepo |-> "not-a-repo", hasCommit |-> "local-only",
     getRemoteUrl |-> "empty-repo", hasUpstream |-> "remote-no-upstream"]

\* What detectRepoState returns when a probe fails (git.ts:175, 182, 188, 196).
StateOnFail ==
    [isGitRepo |-> "not-a-repo", hasCommit |-> "empty-repo",
     getRemoteUrl |-> "local-only", hasUpstream |-> "remote-no-upstream"]

\* What is drawn for a repository and a git path: whether the git binary can be
\* run at all ("spawn": gitPath exists and may be executed) and, if it can, what
\* each probe finds.
ProbeFacts == [{ProbeNames[i] : i \in 1..4} \cup {"spawn"} -> BOOLEAN]

\* runGit of a probe rejects (git.ts:131-135): the binary could not be run, or
\* git exited with an error because the repository lacks what is probed.
ProbeFails(n) == ~probes["spawn"] \/ ~probes[n]

\* The position of a probe in detectRepoState.
ProbeIndex(n) == CHOOSE i \in 1..4 : ProbeNames[i] = n

\* Failure texts of `git pull` (the Error message runGit rejects with, git.ts:134):
\* a merge that stopped on a conflict, a pull refused because of unmerged files
\* left by such a merge, anything else.
ConflictText == "CONFLICT (content): Merge conflict in c.md"
UnmergedText == "error: Pulling is not possible because you have unmerged files."
OtherText == "fatal: unable to access the remote"

\* msg.includes("CONFLICT") || msg.includes("Merge conflict") (git.ts:275).
IndicatesConflict(msg) == msg = ConflictText

\* A pull that goes on for every state but not-a-repo.
PullGate_RepoOnly(state) == state = "not-a-repo"

\* pull's test of the detected state (git.ts:253).
PullGate(state) == state # "ready"

\* The not-ready result of pull (git.ts:254-259).
NotReady == [success |-> FALSE, hasConflicts |-> FALSE, notReady |-> TRUE,
             message |-> "Repository not ready"]

\* How `git pull` can end: "ok" or a failure text.
PullTexts == {"ok", ConflictText, OtherText}

\* How the fallback `git pull origin <branch>` can end: after a merge that stopped
\* on a conflict the working tree has unmerged files and git refuses to pull.
FallbackTexts ==
    IF \E i \in 1..Len(git.texts) : git.texts[i] = ConflictText
    THEN {UnmergedText}
    ELSE PullTexts

\* detectRepoState or pull is called (git.ts:172-174, 250-252, 300-302).
GitCall(op) ==
    /\ git.pc = "idle"
    /\ git' = [IdleGit EXCEPT !.op = op, !.pc = "isGitRepo",
                              !.procs = <<ProbeProc["isGitRepo"]>>]
    /\ UNCHANGED <<probes, orchVars, parseVars, engineVars, badgeVars, worldVars>>

\* detectRepoState has its answer (git.ts:175-197); pull goes on in the same turn
\* (git.ts:252-265).
Detected(state) ==
    IF git.op = "detect"
    THEN git' = [git EXCEPT !.pc = "idle", !.state = state, !.ret = "value"]
    ELSE IF PullGate(state)
    THEN git' = [git EXCEPT !.pc = "idle", !.state = state, !.ret = "value",
                            !.result = NotReady]
    ELSE git' = [git EXCEPT !.pc = "pull", !.state = state, !.procs = @ \o <<"pull">>]

\* The subprocess of a probe completes (git.ts:174-197, 300-320).
DetectStep ==
    /\ git.pc \in {ProbeNames[i] : i \in 1..4}
    /\ IF ProbeFails(git.pc)
       THEN Detected(StateOnFail[git.pc])
       ELSE IF ProbeIndex(git.pc) = 4
       THEN Detected("ready")
       ELSE git' = [git EXCEPT !.pc = ProbeNames[ProbeIndex(git.pc) + 1],
                               !.procs = @ \o <<ProbeProc[ProbeNames[ProbeIndex(git.pc) + 1]]>>]
    /\ UNCHANGED <<probes, orchVars, parseVars, engineVars, badgeVars, worldVars>>

\* `git pull` completes (git.ts:264-269).
PullUpstreamDone ==
    /\ git.pc = "pull"
    /\ \E out \in PullTexts :
        IF out = "ok"
        THEN git' = [git EXCEPT !.pc = "idle", !.ret = "value",
                                !.result = [NoResult EXCEPT !.success = TRUE, !.message = "ok"]]
        ELSE git' = [git EXCEPT !.pc = "getCurrentBranch", !.texts = @ \o <<out>>,
                                !.procs = @ \o <<"rev-parse --abbrev-ref HEAD">>]
    /\ UNCHANGED <<probes, orchVars, parseVars, engineVars, badgeVars, worldVars>>

\* getCurrentBranch of the fallback completes (git.ts:269-270, 273-278, 512-515).
PullBranchDone ==
    /\ git.pc = "getCurrentBranch"
    /\ \E ok \in BOOLEAN :
        IF ok
        THEN git' = [git EXCEPT !.pc = "pullOrigin", !.procs = @ \o <<"pull origin">>]
        ELSE git' = [git EXCEPT !.pc = "idle", !.ret = "thrown"]
    /\ UNCHANGED <<probes, orchVars, parseVars, engineVars, badgeVars, worldVars>>

\* `git pull origin <branch>` completes (git.ts:270-278).
PullOriginDone ==
    /\ git.pc = "pullOrigin"
    /\ \E out \in FallbackTexts :
        IF out = "ok"
        THEN git' = [git EXCEPT !.pc = "idle", !.ret = "value",
                                !.result = [NoResult EXCEPT !.success = TRUE, !.message = "ok"]]
        ELSE IF IndicatesConflict(out)
        THEN git' = [git EXCEPT !.pc = "idle", !.ret = "value", !.texts = @ \o <<out>>,
                                !.result = [NoResult EXCEPT !.hasConflicts = TRUE,
                                                            !.message = out]]
        ELSE git' = [git EXCEPT !.pc = "idle", !.ret = "thrown", !.texts = @ \o <<out>>]
    /\ UNCHANGED <<probes, orchVars, parseVars, engineVars, badgeVars, worldVars>>

\* The repository changes between two calls: what the probes find is redrawn.
RepoChanges ==
    /\ git.pc = "idle" /\ git.ret # "-"
    /\ probes' \in ProbeFacts
    /\ probes' # probes
    /\ git' = IdleGit
    /\ UNCHANGED <<orchVars, parseVars, engineVars, badgeVars, worldVars>>

\* Any outcome of the four probes; the plugin loaded on desktop and at rest.
InitGit ==
    /\ Start({TRUE}, {[autoCommit |-> FALSE, autoPush |-> FALSE]},
             {[work |-> FALSE, index |-> FALSE, unmerged |-> {}]})
    /\ probes \in ProbeFacts
    /\ git = IdleGit
    /\ ParseIdle /\ EngineIdle /\ BadgesNew

NextGit ==
    \/ \E op \in {"detect", "pull"} : GitCall(op)
    \/ DetectStep
    \/ PullUpstreamDone
    \/ PullBranchDone
    \/ PullOriginDone
    \/ RepoChanges

\* detectRepoState and pull called on their own, one call at a time.
SpecGit == InitGit /\ [][NextGit]_vars

\* ------------------------------------------------------------------ the status parsers
\* Paths the status output names.
StatusPaths == {"a.md", "b.md", "d.md"}

\* Two-character codes XY of porcelain v1, X the staged and Y the unstaged column;
\* a rename or copy is detected in the staged column.
XYCodes ==
    {<<"?", "?">>, <<" ", "M">>, <<"M", " ">>, <<"M", "M">>, <<"A", " ">>, <<"A", "M">>,
     <<" ", "D">>, <<"D", " ">>, <<"R", " ">>, <<"R", "M">>, <<"C", " ">>,
     <<"U", "U">>, <<"A", "U">>, <<"D", "U">>}

\* What git reports of one path: its code, its path, and for a rename or copy
\* the path it came from (orig, else "").
StatusRecords ==
    {r \in [xy : XYCodes, path : StatusPaths, orig : StatusPaths \cup {""}] :
        /\ (r.xy[1] \in {"R", "C"}) <=> (r.orig # "")
        /\ r.orig # r.path}

\* Lists of at most n records, no path reported twice.
RECURSIVE RecordLists(_)
RecordLists(n) ==
    IF n = 0 THEN {<<>>}
    ELSE LET shorter == RecordLists(n - 1)
         IN  shorter \cup
             UNION {{Append(l, r) : r \in {q \in StatusRecords :
                                               \A i \in 1..Len(l) : l[i].path # q.path}} :
                    l \in {x \in shorter : Len(x) = n - 1}}

\* The fields of `git status --porcelain=v1 -z` (the arguments of git.ts:201, 352,
\* 520), each ended by NUL: "XY path" for a record, and for a rename or copy
\* "XY newpath" followed by a field holding the original path alone.  A field is
\* [xy, path], xy = <<>> for a field that is a path alone.
RECURSIVE PorcelainZ(_)
PorcelainZ(records) ==
    IF records = <<>> THEN <<>>
    ELSE LET r == Head(records)
         IN  <<[xy |-> r.xy, path |-> r.path]>>
             \o (IF r.orig # "" THEN <<[xy |-> <<>>, path |-> r.orig]>> ELSE <<>>)
             \o PorcelainZ(Tail(records))

\* entry.slice(0, 2); of a field that is a path alone, its first two characters,
\* which are no status letters for the paths here.
Slice02(entry) == IF entry.xy # <<>> THEN entry.xy ELSE <<"-", "-">>

\* entry.slice(3); of a field that is a path alone, what follows its third character.
Slice3(entry) == IF entry.xy # <<>> THEN entry.path ELSE "md"

\* statusCode.startsWith("R") || statusCode.startsWith("C") (git.ts:213, 363, 528).
IsRenameOrCopy(xy) == xy[1] \in {"R", "C"}

\* The loop of getChangedFiles from index i on (git.ts:207-219, 524-534).
RECURSIVE ChangedFrom(_, _)
ChangedFrom(parts, i) ==
    IF i > Len(parts) THEN <<>>
    ELSE IF IsRenameOrCopy(Slice02(parts[i]))
    THEN (IF i + 1 <= Len(parts) THEN <<parts[i + 1].path>> ELSE <<>>)
         \o ChangedFrom(parts, i + 2)
    ELSE <<Slice3(parts[i])>> \o ChangedFrom(parts, i + 1)

\* [...new Set(files)]: the first occurrence of each element, in order.
RECURSIVE Dedup(_)
Dedup(files) ==
    IF files = <<>> THEN <<>>
    ELSE LET front == Dedup(SubSeq(files, 1, Len(files) - 1))
             last == files[Len(files)]
         IN  IF \E k \in 1..Len(front) : front[k] = last THEN front
             ELSE Append(front, last)

\* getChangedFiles on the output of a status query that succeeded (git.ts:202-221).
getChangedFiles(parts) == Dedup(ChangedFrom(parts, 1))

\* getChangedFilesSync, the same parse (git.ts:521-535); [] when the query fails.
getChangedFilesSync(parts, ok) == IF ok THEN Dedup(ChangedFrom(parts, 1)) ELSE <<>>

\* xy.includes(ch).
Includes(xy, ch) == xy[1] = ch \/ xy[2] = ch

\* The status getFileStatuses gives a code (git.ts:369-381).
StatusOf(xy) ==
    IF Includes(xy, "U") THEN "U"
    ELSE IF xy = <<"?", "?">> THEN "A"
    ELSE IF Includes(xy, "A") THEN "A"
    ELSE IF Includes(xy, "M") THEN "M"
    ELSE IF Includes(xy, "R") \/ Includes(xy, "C") THEN "R"
    ELSE ""

\* statusMap.set(path, status) under `if (filePath && status)` (git.ts:383-385).
MapSet(map, path, status) ==
    IF path # "" /\ status # ""
    THEN [q \in DOMAIN map \cup {path} |-> IF q = path THEN status ELSE map[q]]
    ELSE map

\* The loop of getFileStatuses from index i on (git.ts:357-386).
RECURSIVE StatusesFrom(_, _, _)
StatusesFrom(parts, i, map) ==
    IF i > Len(parts) THEN map
    ELSE LET xy == Slice02(parts[i])
         IN  IF IsRenameOrCopy(xy)
             THEN StatusesFrom(parts, i + 2,
                               MapSet(map, IF i + 1 <= Len(parts) THEN parts[i + 1].path
                                           ELSE Slice3(parts[i]), StatusOf(xy)))
             ELSE StatusesFrom(parts, i + 1, MapSet(map, Slice3(parts[i]), StatusOf(xy)))

\* getFileStatuses (git.ts:348-392): the empty map when the query fails.
getFileStatuses(parts, ok) == IF ok THEN StatusesFrom(parts, 1, EmptyMap) ELSE EmptyMap

\* The status query completes and the three parsers run on its output.
ParseStatus ==
    /\ ~parsed.done
    /\ \E ok \in BOOLEAN :
        parsed' = [done |-> TRUE, ok |-> ok,
                   files |-> IF ok THEN getChangedFiles(stdout) ELSE <<>>,
                   syncFiles |-> getChangedFilesSync(stdout, ok),
                   statuses |-> getFileStatuses(stdout, ok)]
    /\ UNCHANGED <<stdout, orchVars, gitVars, engineVars, badgeVars, worldVars>>

\* Every status output of at most MaxRecords records.
InitParse ==
    /\ Start({TRUE}, {[autoCommit |-> FALSE, autoPush |-> FALSE]},
             {[work |-> FALSE, index |-> FALSE, unmerged |-> {}]})
    /\ GitIdle /\ EngineIdle /\ BadgesNew
    /\ stdout \in {PorcelainZ(l) : l \in RecordLists(MaxRecords)}
    /\ parsed = NotParsed

NextParse == ParseStatus

\* The parsers of the status output, applied to every bounded output.
SpecParse == InitParse /\ [][NextParse]_vars

\* ------------------------------------------------------------------ the status engine
\* The files of the vault, and the rows of the file explorer (files and folders).
EngineFiles == {"d/a.md", "d/e/b.md", ".obsidian/w.json"}
EngineFolders == {"d", "d/e", ".obsidian"}

\* filePath.split(/[/\\]/) (part_002:229).
SplitPath ==
    [q \in EngineFiles \cup EngineFolders |->
        CASE q = "d/a.md" -> <<"d", "a.md">>
          [] q = "d/e/b.md" -> <<"d", "e", "b.md">>
          [] q = ".obsidian/w.json" -> <<".obsidian", "w.json">>
          [] q = "d" -> <<"d">>
          [] q = "d/e" -> <<"d", "e">>
          [] OTHER -> <<".obsidian">>]

\* parts.join("/") (part_002:231).
JoinPath(parts) == CHOOSE q \in EngineFiles \cup EngineFolders : SplitPath[q] = parts

\* opts.shouldIgnore (part_002:6), as the plugin supplies it with the config
\* directory ignored (main.ts:782-789).
ShouldIgnore(path) == SplitPath[path][1] = ".obsidian"

\* map.get(path) ?? "".
MapGet(map, path) == IF path \in DOMAIN map THEN map[path] ELSE ""

\* map.delete(path).
MapDelete(map, path) == [q \in DOMAIN map \ {path} |-> map[q]]

\* map.set(path, status).
MapPut(map, path, status) ==
    [q \in DOMAIN map \cup {path} |-> IF q = path THEN status ELSE map[q]]

\* A priority in which Modified outranks Added.
priority_ModifiedFirst(status) ==
    CASE status = "U" -> 4 [] status = "M" -> 3 [] status = "A" -> 2
      [] status = "R" -> 1 [] OTHER -> 0

\* priority (part_002:242-250).
priority(status) ==
    CASE status = "U" -> 4 [] status = "A" -> 3 [] status = "M" -> 2
      [] status = "R" -> 1 [] OTHER -> 0

\* new Map(this.fileStatuses) with every conflict set to "U" (part_002:224-225).
Merged(files, confl) ==
    [q \in DOMAIN files \cup confl |-> IF q \in confl THEN "U" ELSE files[q]]

\* The inner loop of rebuildFolderStatuses for one file, from prefix length i on
\* (part_002:229-236).
RECURSIVE FoldPrefixes(_, _, _, _)
FoldPrefixes(folders, parts, status, i) ==
    IF i >= Len(parts) THEN folders
    ELSE LET folder == JoinPath(SubSeq(parts, 1, i))
             cur == MapGet(folders, folder)
         IN  FoldPrefixes(IF cur = "" \/ priority(status) > priority(cur)
                          THEN MapPut(folders, folder, status) ELSE folders,
                          parts, status, i + 1)

\* merged.forEach of rebuildFolderStatuses over the entries not yet visited
\* (part_002:228-237).
RECURSIVE FoldFiles(_, _, _)
FoldFiles(folders, merged, todo) ==
    IF todo = {} THEN folders
    ELSE LET filePath == CHOOSE q \in todo : TRUE
         IN  FoldFiles(FoldPrefixes(folders, SplitPath[filePath], merged[filePath], 1),
                       merged, todo \ {filePath})

\* rebuildFolderStatuses (part_002:223-240): the new folderStatuses.
rebuildFolderStatuses(files, confl) ==
    FoldFiles(EmptyMap, Merged(files, confl), DOMAIN Merged(files, confl))

\* A queueRender that requests a frame although one is pending.
queueRender_Again(en, raf) == IF ~en THEN raf ELSE raf + 1

\* queueRender (part_002:175-181): the new rafId.
queueRender(en, raf) == IF ~en \/ raf > 0 THEN raf ELSE raf + 1

\* A getStatus that looks the path up before the conflicts.
getStatus_MapFirst(path) ==
    IF ~enabled \/ ShouldIgnore(path) THEN ""
    ELSE IF path \in DOMAIN fileStatuses THEN fileStatuses[path]
    ELSE IF path \in conflicts THEN "U"
    ELSE ""

\* getStatus (part_002:77-81).
getStatus(path) ==
    IF ~enabled \/ ShouldIgnore(path) THEN ""
    ELSE IF path \in conflicts THEN "U"
    ELSE MapGet(fileStatuses, path)

\* The status render gives a row (part_002:194-204): "" removes its badge.
RowStatus(path) ==
    IF ShouldIgnore(path) THEN ""
    ELSE IF path \in EngineFiles
    THEN (IF path \in conflicts THEN "U" ELSE MapGet(fileStatuses, path))
    ELSE MapGet(folderStatuses, path)

\* render (part_002:183-217): the badges of the rows in the document.
render ==
    IF ~enabled \/ ~container THEN badges
    ELSE [q \in {r \in EngineFiles \cup EngineFolders : RowStatus(r) # ""} |-> RowStatus(q)]

\* The records `git status` has for the working tree, files in a fixed order:
\* modified or deleted tracked files, untracked files; nothing is staged.
RECURSIVE TreeRecords(_)
TreeRecords(todo) ==
    IF todo = {} THEN <<>>
    ELSE LET q == CHOOSE x \in todo : TRUE
             rec == IF q \in head /\ ~tree[q].exists
                    THEN <<[xy |-> <<" ", "D">>, path |-> q, orig |-> ""]>>
                    ELSE IF q \in head /\ tree[q].changed
                    THEN <<[xy |-> <<" ", "M">>, path |-> q, orig |-> ""]>>
                    ELSE IF q \notin head /\ tree[q].exists
                    THEN <<[xy |-> <<"?", "?">>, path |-> q, orig |-> ""]>>
                    ELSE <<>>
         IN  rec \o TreeRecords(todo \ {q})

\* [...statuses].filter(([p]) => !shouldIgnore(p)) (part_002:143-145).
FilterIgnored(map) == [q \in {x \in DOMAIN map : ~ShouldIgnore(x)} |-> map[q]]

\* What a refresh whose queries succeed stores as fileStatuses (part_002:136-145).
FreshStatuses == FilterIgnored(getFileStatuses(PorcelainZ(TreeRecords(EngineFiles)), TRUE))

\* getTrackedFiles: the set of paths present in the last commit.
getTrackedFiles == head

\* The frame of the status engine's actions.
EngineFrame == UNCHANGED <<orchVars, gitVars, parseVars, badgeVars, head>>

\* `if (this.pollId) window.clearInterval(this.pollId)` and
\* `if (this.rafId) window.cancelAnimationFrame(this.rafId)` (part_002:46-57):
\* the timer or frame the field refers to is gone.
clearInterval(id) == IF id > 0 THEN id - 1 ELSE 0

\* A stop() that leaves a requested animation frame pending.
stop_KeepFrame ==
    /\ enabled' = FALSE
    /\ pollId' = clearInterval(pollId)
    /\ retryId' = 0
    /\ rafId' = rafId
    /\ observer' = "none"
    /\ fileStatuses' = EmptyMap
    /\ folderStatuses' = EmptyMap
    /\ trackedFiles' = {}
    /\ trackedLoaded' = FALSE
    /\ conflicts' = {}
    /\ badges' = EmptyMap

\* stop() (part_002:43-69), as the first statement of start() too.
stop ==
    /\ enabled' = FALSE
    /\ pollId' = clearInterval(pollId)
    /\ retryId' = 0
    /\ rafId' = clearInterval(rafId)
    /\ observer' = "none"
    /\ fileStatuses' = EmptyMap
    /\ folderStatuses' = EmptyMap
    /\ trackedFiles' = {}
    /\ trackedLoaded' = FALSE
    /\ conflicts' = {}
    /\ badges' = EmptyMap

\* stop() called by the plugin.
EngineStop ==
    /\ stop
    /\ UNCHANGED <<pollInterval, refreshing, container, tree>>
    /\ EngineFrame

\* A start() that sets its interval without clearing the one of the last start.
EngineStart_Leak(en, poll) ==
    /\ en => Len(refreshing) < MaxRefreshing
    /\ IF ~en
       THEN /\ stop
            /\ UNCHANGED refreshing
       ELSE /\ enabled' = TRUE
            /\ fileStatuses' = EmptyMap
            /\ folderStatuses' = EmptyMap
            /\ trackedFiles' = {}
            /\ trackedLoaded' = FALSE
            /\ conflicts' = {}
            /\ badges' = EmptyMap
            /\ observer' = IF container THEN "attached" ELSE "none"
            /\ rafId' = IF container THEN queueRender(TRUE, clearInterval(rafId))
                        ELSE clearInterval(rafId)
            /\ retryId' = IF container THEN 0 ELSE 1
            /\ refreshing' = Append(refreshing, NotRead)
            /\ pollId' = pollId + (IF poll > 0 THEN 1 ELSE 0)
    /\ pollInterval' = poll
    /\ UNCHANGED <<container, tree>>
    /\ EngineFrame

\* start(enabled, pollIntervalSeconds) (part_002:26-41) with attachObserver(0)
\* (part_002:156-173) and refresh() up to its await (part_002:129-139).
EngineStart(en, poll) ==
    /\ en => Len(refreshing) < MaxRefreshing
    /\ IF ~en
       THEN /\ stop
            /\ UNCHANGED refreshing
       ELSE /\ enabled' = TRUE
            /\ fileStatuses' = EmptyMap
            /\ folderStatuses' = EmptyMap
            /\ trackedFiles' = {}
            /\ trackedLoaded' = FALSE
            /\ conflicts' = {}
            /\ badges' = EmptyMap
            /\ observer' = IF container THEN "attached" ELSE "none"
            /\ rafId' = IF container THEN queueRender(TRUE, clearInterval(rafId))
                        ELSE clearInterval(rafId)
            /\ retryId' = IF container THEN 0 ELSE 1
            /\ refreshing' = Append(refreshing, NotRead)
            /\ pollId' = clearInterval(pollId) + (IF poll > 0 THEN 1 ELSE 0)
    /\ pollInterval' = poll
    /\ UNCHANGED <<container, tree>>
    /\ EngineFrame

\* The observer-retry timeout fires (part_002:162-165) and attachObserver runs
\* with the count it carries.
RetryFire ==
    /\ retryId # 0
    /\ IF container
       THEN /\ observer' = "attached"
            /\ rafId' = queueRender(enabled, rafId)
            /\ retryId' = 0
       ELSE /\ retryId' = IF retryId < 10 THEN retryId + 1 ELSE 0
            /\ UNCHANGED <<observer, rafId>>
    /\ UNCHANGED <<enabled, pollInterval, fileStatuses, folderStatuses, trackedFiles,
                   trackedLoaded, conflicts, pollId, refreshing, container, badges, tree>>
    /\ EngineFrame

\* The host mounts the file explorer.
ContainerMounts ==
    /\ ~container
    /\ container' = TRUE
    /\ UNCHANGED <<engineVars, refreshing, badges, tree>>
    /\ EngineFrame

\* The host takes the file explorer out of the document (the view is closed or
\* rebuilt): its rows go with it, an observer stays on the removed element.
ContainerUnmounts ==
    /\ container
    /\ container' = FALSE
    /\ observer' = IF observer = "attached" THEN "detached" ELSE observer
    /\ badges' = EmptyMap
    /\ UNCHANGED <<enabled, pollInterval, fileStatuses, folderStatuses, trackedFiles,
                   trackedLoaded, conflicts, pollId, retryId, rafId, refreshing, tree>>
    /\ EngineFrame

\* The MutationObserver reports a change of the file explorer (part_002:170).
Mutation ==
    /\ observer = "attached"
    /\ rafId' = queueRender(enabled, rafId)
    /\ rafId' # rafId
    /\ UNCHANGED <<enabled, pollInterval, fileStatuses, folderStatuses, trackedFiles,
                   trackedLoaded, conflicts, pollId, retryId, observer, refreshing,
                   container, badges, tree>>
    /\ EngineFrame

\* The animation frame requested by queueRender runs (part_002:177-180).
FrameRuns ==
    /\ rafId > 0
    /\ rafId' = rafId - 1
    /\ badges' = render
    /\ UNCHANGED <<enabled, pollInterval, fileStatuses, folderStatuses, trackedFiles,
                   trackedLoaded, conflicts, pollId, retryId, observer, refreshing,
                   container, tree>>
    /\ EngineFrame

\* The poll interval fires (part_002:37-39): refresh() up to its await.
PollFire ==
    /\ pollId > 0 /\ Len(refreshing) < MaxRefreshing
    /\ refreshing' = IF enabled THEN Append(refreshing, NotRead) ELSE refreshing
    /\ refreshing' # refreshing
    /\ UNCHANGED <<engineVars, container, badges, tree>>
    /\ EngineFrame

\* The queries of the i-th refresh() in flight run now: `git status` reads the
\* working tree as it is, or fails inside getFileStatuses, which then resolves
\* with an empty map (git.ts:388-391); the tracked-files query succeeds or throws.
QueriesRun(i) ==
    /\ i \in 1..Len(refreshing) /\ ~refreshing[i].read
    /\ \E statusOk, trackedOk \in BOOLEAN :
        refreshing' = [refreshing EXCEPT ![i] =
            [read |-> TRUE, statusOk |-> statusOk, trackedOk |-> trackedOk,
             statuses |-> getFileStatuses(PorcelainZ(TreeRecords(EngineFiles)), statusOk)]]
    /\ UNCHANGED <<engineVars, container, badges, tree>>
    /\ EngineFrame

\* The sequence without its i-th element.
Without(seq, i) == SubSeq(seq, 1, i - 1) \o SubSeq(seq, i + 1, Len(seq))

\* The rest of refresh() once its queries have resolved with the given results
\* (part_002:141-153).
refreshApply(statuses, trackedOk) ==
    IF ~trackedOk \/ ~enabled
    THEN UNCHANGED <<fileStatuses, trackedFiles, trackedLoaded, folderStatuses, rafId>>
    ELSE /\ fileStatuses' = FilterIgnored(statuses)
         /\ trackedFiles' = getTrackedFiles
         /\ trackedLoaded' = TRUE
         /\ folderStatuses' = rebuildFolderStatuses(FilterIgnored(statuses), conflicts)
         /\ rafId' = queueRender(enabled, rafId)

\* The two queries of a refresh() in flight have completed (part_002:136-153),
\* whichever refresh it is: with what they read earlier, or having run only now.
RefreshDone ==
    /\ \E i \in 1..Len(refreshing) :
        /\ refreshing' = Without(refreshing, i)
        /\ IF refreshing[i].read
           THEN refreshApply(refreshing[i].statuses, refreshing[i].trackedOk)
           ELSE \E statusOk, trackedOk \in BOOLEAN :
                    refreshApply(getFileStatuses(PorcelainZ(TreeRecords(EngineFiles)),
                                                 statusOk), trackedOk)
    /\ UNCHANGED <<enabled, pollInterval, conflicts, pollId, retryId, observer,
                   container, badges, tree>>
    /\ EngineFrame

\* setConflicts(files) (part_002:71-75).
SetConflicts(files) ==
    /\ conflicts' = {q \in files : ~ShouldIgnore(q)}
    /\ folderStatuses' = rebuildFolderStatuses(fileStatuses, conflicts')
    /\ rafId' = queueRender(enabled, rafId)
    /\ UNCHANGED <<enabled, pollInterval, fileStatuses, trackedFiles, trackedLoaded,
                   pollId, retryId, observer, refreshing, container, badges, tree>>
    /\ EngineFrame

\* What a note* call leaves when it has changed the maps: folders rebuilt and a
\* render queued (part_002:87-88, 97-98, 105-106, 125-126).
Noted ==
    /\ folderStatuses' = rebuildFolderStatuses(fileStatuses', conflicts')
    /\ rafId' = queueRender(enabled, rafId)

\* noteCreate(path) (part_002:83-89).
noteCreate(path) ==
    IF ~enabled \/ ShouldIgnore(path) \/ ~trackedLoaded
    THEN UNCHANGED <<fileStatuses, conflicts, trackedFiles, folderStatuses, rafId>>
    ELSE /\ fileStatuses' = MapPut(fileStatuses, path,
                                   IF path \in trackedFiles THEN "M" ELSE "A")
         /\ UNCHANGED <<conflicts, trackedFiles>>
         /\ Noted

\* A noteModify that overwrites an Added or Renamed status.
noteModify_Overwrite(path) ==
    IF ~enabled \/ ShouldIgnore(path) \/ ~trackedLoaded
    THEN UNCHANGED <<fileStatuses, conflicts, trackedFiles, folderStatuses, rafId>>
    ELSE /\ fileStatuses' = MapPut(fileStatuses, path, "M")
         /\ UNCHANGED <<conflicts, trackedFiles>>
         /\ Noted

\* noteModify(path) (part_002:91-99).
noteModify(path) ==
    IF ~enabled \/ ShouldIgnore(path) \/ ~trackedLoaded
       \/ MapGet(fileStatuses, path) \in {"A", "R"}
    THEN UNCHANGED <<fileStatuses, conflicts, trackedFiles, folderStatuses, rafId>>
    ELSE /\ fileStatuses' = MapPut(fileStatuses, path, "M")
         /\ UNCHANGED <<conflicts, trackedFiles>>
         /\ Noted

\* noteDelete(path) (part_002:101-107).
noteDelete(path) ==
    IF ~enabled \/ ShouldIgnore(path)
    THEN UNCHANGED <<fileStatuses, conflicts, trackedFiles, folderStatuses, rafId>>
    ELSE /\ fileStatuses' = MapDelete(fileStatuses, path)
         /\ conflicts' = conflicts \ {path}
         /\ UNCHANGED trackedFiles
         /\ Noted

\* A noteRename that leaves the old path in the conflicts.
noteRename_KeepConflict(oldPath, newPath) ==
    IF ~enabled \/ (ShouldIgnore(oldPath) /\ ShouldIgnore(newPath))
    THEN UNCHANGED <<fileStatuses, conflicts, trackedFiles, folderStatuses, rafId>>
    ELSE /\ conflicts' = conflicts
         /\ IF ~ShouldIgnore(newPath) /\ trackedLoaded
            THEN /\ trackedFiles' = IF oldPath \in trackedFiles
                                    THEN (trackedFiles \ {oldPath}) \cup {newPath}
                                    ELSE trackedFiles
                 /\ fileStatuses' = MapPut(MapDelete(fileStatuses, oldPath), newPath,
                                           IF oldPath \in trackedFiles THEN "R" ELSE "A")
            ELSE /\ fileStatuses' = MapDelete(fileStatuses, oldPath)
                 /\ UNCHANGED trackedFiles
         /\ Noted

\* noteRename(oldPath, newPath) (part_002:109-127).
noteRename(oldPath, newPath) ==
    IF ~enabled \/ (ShouldIgnore(oldPath) /\ ShouldIgnore(newPath))
    THEN UNCHANGED <<fileStatuses, conflicts, trackedFiles, folderStatuses, rafId>>
    ELSE /\ conflicts' = conflicts \ {oldPath}
         /\ IF ~ShouldIgnore(newPath) /\ trackedLoaded
            THEN /\ trackedFiles' = IF oldPath \in trackedFiles
                                    THEN (trackedFiles \ {oldPath}) \cup {newPath}
                                    ELSE trackedFiles
                 /\ fileStatuses' = MapPut(MapDelete(fileStatuses, oldPath), newPath,
                                           IF oldPath \in trackedFiles THEN "R" ELSE "A")
            ELSE /\ fileStatuses' = MapDelete(fileStatuses, oldPath)
                 /\ UNCHANGED trackedFiles
         /\ Noted

\* What every file event leaves alone.
EventFrame ==
    /\ UNCHANGED <<enabled, pollInterval, trackedLoaded, pollId, retryId, observer,
                   refreshing, container, badges>>
    /\ EngineFrame

\* The host reports a created file.
FileCreated(path) ==
    /\ ~tree[path].exists
    /\ tree' = [tree EXCEPT ![path] = [exists |-> TRUE, changed |-> TRUE]]
    /\ noteCreate(path)
    /\ EventFrame

\* The host reports a modified file.
FileModified(path) ==
    /\ tree[path].exists
    /\ tree' = [tree EXCEPT ![path] = [exists |-> TRUE, changed |-> TRUE]]
    /\ noteModify(path)
    /\ EventFrame

\* The host reports a deleted file.
FileDeleted(path) ==
    /\ tree[path].exists
    /\ tree' = [tree EXCEPT ![path] = [exists |-> FALSE, changed |-> FALSE]]
    /\ noteDelete(path)
    /\ EventFrame

\* The host reports a renamed file.
FileRenamed(oldPath, newPath) ==
    /\ tree[oldPath].exists /\ ~tree[newPath].exists
    /\ tree' = [tree EXCEPT ![oldPath] = [exists |-> FALSE, changed |-> FALSE],
                            ![newPath] = [exists |-> TRUE, changed |-> TRUE]]
    /\ noteRename(oldPath, newPath)
    /\ EventFrame

\* The last commit the engine is run against: one note is committed, the other
\* note and the config directory are not.
Heads == {{"d/a.md"}}

\* The lists the plugin passes to setConflicts.
ConflictLists == {{}, {"d/a.md"}, {"d/e/b.md", ".obsidian/w.json"}, {"d/a.md", "d/e/b.md"}}

\* A constructed engine over a clean working tree; the file explorer is not
\* mounted yet.
InitEngine ==
    /\ Start({TRUE}, {[autoCommit |-> FALSE, autoPush |-> FALSE]},
             {[work |-> FALSE, index |-> FALSE, unmerged |-> {}]})
    /\ GitIdle /\ ParseIdle /\ BadgesNew
    /\ EngineNew
    /\ container = FALSE
    /\ head \in Heads
    /\ tree = [q \in EngineFiles |-> [exists |-> q \in head, changed |-> FALSE]]

NextEngine ==
    \/ \E en \in BOOLEAN, poll \in {0, 1} : EngineStart(en, poll)
    \/ EngineStop
    \/ RetryFire
    \/ ContainerMounts
    \/ ContainerUnmounts
    \/ Mutation
    \/ FrameRuns
    \/ PollFire
    \/ RefreshDone
    \/ \E files \in ConflictLists : SetConflicts(files)
    \/ \E path \in EngineFiles : FileCreated(path)
    \/ \E path \in EngineFiles : FileModified(path)
    \/ \E path \in EngineFiles : FileDeleted(path)
    \/ \E oldPath, newPath \in EngineFiles : FileRenamed(oldPath, newPath)

\* GitStatusBadgeManager driven by the plugin, the host's file events, its timers
\* and its queries.
SpecEngine == InitEngine /\ [][NextEngine]_vars

\* The engine and the file explorer: starts and stops, the retries of
\* attachObserver, the container coming and going, frames and refreshes.
NextObserve ==
    \/ \E en \in BOOLEAN, poll \in {0, 1} : EngineStart(en, poll)
    \/ EngineStop
    \/ RetryFire
    \/ ContainerMounts
    \/ ContainerUnmounts
    \/ Mutation
    \/ FrameRuns
    \/ PollFire
    \/ RefreshDone
    \/ \E files \in ConflictLists : SetConflicts(files)

\* Timeouts, animation frames and subprocesses do not wait forever.
SpecObserve ==
    /\ InitEngine /\ [][NextObserve]_vars
    /\ WF_vars(RetryFire)
    /\ WF_vars(FrameRuns)
    /\ WF_vars(RefreshDone)

\* ------------------------------------------------------------------ properties
\* Refreshes against a working tree that changes while their queries are in
\* flight: starts and stops, poll ticks, the queries running and completing,
\* and the file events the host reports in between.
NextRefresh ==
    \/ \E poll \in {0, 1} : EngineStart(TRUE, poll)
    \/ EngineStop
    \/ PollFire
    \/ \E i \in 1..MaxRefreshing : QueriesRun(i)
    \/ RefreshDone
    \/ \E path \in EngineFiles : FileCreated(path)
    \/ \E path \in EngineFiles : FileModified(path)
    \/ \E path \in EngineFiles : FileDeleted(path)

SpecRefresh == InitEngine /\ [][NextRefresh]_vars
\* ------------------------------------------------------------------ the plugin's badges
\* The rows the file explorer can have in the document, and the notes whose
\* status changes.
ExplorerRows == {"d", "d/a.md", "d/e/b.md"}
BadgeFiles == {"d/a.md", "d/e/b.md"}

\* calculateFolderStatuses (main.ts:1279-1296), with statusPriority
\* (main.ts:1298-1306), which orders the statuses as priority does.
calculateFolderStatuses(statuses) == FoldFiles(EmptyMap, statuses, DOMAIN statuses)

\* getMergedStatuses (main.ts:1180-1193) for the given currentStatuses.
getMergedStatuses(current) ==
    LET merged == Merged(current, conflictFiles)
        folders == calculateFolderStatuses(merged)
    IN  [q \in DOMAIN merged \cup DOMAIN folders |->
            IF q \in DOMAIN folders THEN folders[q] ELSE merged[q]]

\* updateBadgesInDOM (main.ts:1240-1277): the badges it leaves.  Every badge in
\* the document is removed, then each row in the document gets the badge of its
\* status; an element outside the document is not reached.
updateBadgesInDOM(current) ==
    LET merged == Merged(current, conflictFiles)
        folders == calculateFolderStatuses(merged)
        status == [r \in rows |-> IF r \in EngineFiles THEN MapGet(merged, r)
                                  ELSE MapGet(folders, r)]
    IN  [q \in (DOMAIN badges \ rows) \cup {r \in rows : status[r] # ""} |->
            IF q \in rows THEN status[q] ELSE badges[q]]

\* updateBadgesDiff with removeBadgeFromPath and updateBadgeForPath
\* (main.ts:1195-1238): the badges it leaves.  Only a path whose status differs
\* from previousStatuses is touched, and only if document.querySelector finds
\* its row.
updateBadgesDiff(current) ==
    LET newStatuses == getMergedStatuses(current)
        patched == {r \in rows : MapGet(previousStatuses, r) # MapGet(newStatuses, r)}
    IN  [q \in (DOMAIN badges \ patched) \cup {r \in patched : MapGet(newStatuses, r) # ""} |->
            IF q \in patched THEN newStatuses[q] ELSE badges[q]]

\* applyBadgesToNewNodes for the row of one path (main.ts:1118-1138), called by
\* the MutationObserver (main.ts:1102-1110): the badges it leaves.
applyBadgesToNewNodes(path) ==
    IF \/ ~mutationObserver
       \/ path \in DOMAIN badges
       \/ MapGet(getMergedStatuses(currentStatuses), path) = ""
    THEN badges
    ELSE MapPut(badges, path, getMergedStatuses(currentStatuses)[path])

\* What the badge code leaves alone.
BadgeFrame ==
    UNCHANGED <<hostVars, debounceTimer, isCommitting, pendingRerun, vaultEventRefs,
                beforeUnloadHandler, resolveButton, taskVars, histVars, gitVars,
                parseVars, engineVars, container, head>>

\* updateStatusBadges as onLayoutReady calls it (main.ts:671, 1061-1095) with
\* showStatusBadge set: refreshStatusBadges up to its promise and
\* setupMutationObserver (main.ts:1097-1116).
UpdateStatusBadges ==
    /\ ~mutationObserver /\ Len(refreshing) < MaxRefreshing
    /\ mutationObserver' = container
    /\ refreshing' = Append(refreshing, NotRead)
    /\ UNCHANGED <<currentStatuses, previousStatuses, rows, badges, tree,
                   _hasConflicts, conflictFiles, resolveConflictCommand>>
    /\ BadgeFrame

\* refreshStatusBadges up to its promise (main.ts:1152-1161), called by the poll
\* interval, the timeout set after a file change, a commit, a pull or a revert.
RefreshStatusBadges ==
    /\ mutationObserver /\ Len(refreshing) < MaxRefreshing
    /\ refreshing' = Append(refreshing, NotRead)
    /\ UNCHANGED <<badgeVars, badges, tree, _hasConflicts, conflictFiles,
                   resolveConflictCommand>>
    /\ BadgeFrame

\* The then-callback of refreshStatusBadges (main.ts:1161-1168) for a query in
\* flight, with what the query read earlier or reads only now.
StatusesArrive ==
    /\ \E i \in 1..Len(refreshing) :
        /\ refreshing' = Without(refreshing, i)
        /\ \E statuses \in
               (IF refreshing[i].read THEN {refreshing[i].statuses}
                ELSE {getFileStatuses(PorcelainZ(TreeRecords(EngineFiles)), ok) :
                         ok \in BOOLEAN}) :
            /\ currentStatuses' = statuses
            /\ badges' = IF previousStatuses = EmptyMap THEN updateBadgesInDOM(statuses)
                         ELSE updateBadgesDiff(statuses)
            /\ previousStatuses' = getMergedStatuses(statuses)
    /\ UNCHANGED <<mutationObserver, rows, tree, _hasConflicts, conflictFiles,
                   resolveConflictCommand>>
    /\ BadgeFrame

\* checkConflicts after its await (main.ts:1024-1027), and the resolve command
\* (main.ts:1044-1047) as the call with no file: the conflict files change and
\* refreshStatusBadges is called.
ConflictsChecked(files) ==
    /\ files # conflictFiles /\ Len(refreshing) < MaxRefreshing
    /\ setHasConflicts(files # {}, files)
    /\ refreshing' = Append(refreshing, NotRead)
    /\ UNCHANGED <<badgeVars, badges, tree>>
    /\ BadgeFrame

\* A note changes in the working tree: a committed note is modified or restored,
\* another note is created or removed.
TreeChanges(path) ==
    /\ tree' = [tree EXCEPT ![path] =
                   IF path \in head THEN [exists |-> TRUE, changed |-> ~@.changed]
                   ELSE [exists |-> ~@.exists, changed |-> ~@.exists]]
    /\ UNCHANGED <<badgeVars, refreshing, badges, _hasConflicts, conflictFiles,
                   resolveConflictCommand>>
    /\ BadgeFrame

\* The virtualized file explorer puts the row of a path into the document; the
\* MutationObserver reports the added node.
RowMounts(path) ==
    /\ path \notin rows
    /\ rows' = rows \cup {path}
    /\ badges' = applyBadgesToNewNodes(path)
    /\ UNCHANGED <<currentStatuses, previousStatuses, mutationObserver, refreshing, tree,
                   _hasConflicts, conflictFiles, resolveConflictCommand>>
    /\ BadgeFrame

\* The virtualized file explorer takes a row out of the document: it keeps the
\* row's element, with the badge on it, for the next time the row is shown, or
\* drops it.
RowUnmounts(path, keep) ==
    /\ path \in rows
    /\ rows' = rows \ {path}
    /\ badges' = IF keep THEN badges ELSE MapDelete(badges, path)
    /\ UNCHANGED <<currentStatuses, previousStatuses, mutationObserver, refreshing, tree,
                   _hasConflicts, conflictFiles, resolveConflictCommand>>
    /\ BadgeFrame

\* The conflict lists checkConflicts stores.
BadgeConflictLists == {{}, {"d/a.md"}}

\* The plugin loaded on desktop with status badges shown, the file explorer in
\* the document with no row yet, a clean working tree.
InitBadges ==
    /\ Start({TRUE}, {[autoCommit |-> FALSE, autoPush |-> FALSE]},
             {[work |-> FALSE, index |-> FALSE, unmerged |-> {}]})
    /\ GitIdle /\ ParseIdle /\ BadgesNew
    /\ EngineNew
    /\ container = TRUE
    /\ head \in Heads
    /\ tree = [q \in EngineFiles |-> [exists |-> q \in head, changed |-> FALSE]]

NextBadges ==
    \/ UpdateStatusBadges
    \/ RefreshStatusBadges
    \/ \E i \in 1..MaxRefreshing : QueriesRun(i)
    \/ StatusesArrive
    \/ \E files \in BadgeConflictLists : ConflictsChecked(files)
    \/ \E path \in BadgeFiles : TreeChanges(path)
    \/ \E path \in ExplorerRows : RowMounts(path)
    \/ \E path \in ExplorerRows, keep \in BOOLEAN : RowUnmounts(path, keep)

\* The plugin's own badges: status queries, conflict changes and the rows of the
\* virtualized file explorer coming and going.
SpecBadges == InitBadges /\ [][NextBadges]_vars

\* The paths on which an attempt that entered Committing ends, and the one on
\* which it ends before its first await.
ExitPaths == {"noVaultPath", "statusFailed", "noChanges", "addFailed", "commitFailed",
              "committed", "pushed", "pushFailed"}

\* lastCall records a runCommit call made in the last step.
CommitCalled ==
    lastCall.op = "commit" /\ lastCall.path \in {"conflict", "coalesced", "started",
                                                  "noVaultPath"}

\* lastCall records the end of an attempt.
CommitFinished == lastCall.op = "commit" /\ lastCall.path \in ExitPaths

\* lastCall records the start of an attempt.
AttemptStarted == lastCall.op = "commit" /\ lastCall.path = "started"

\* lastCall records a qualifying file event.
QualifyingEvent == lastCall.op = "event" /\ lastCall.who = "file"

\* The debounce timer as scheduleCommit leaves it: one live timer with the full
\* delay, held by debounceTimer.
FreshlyArmed == debounceTimer # 0 /\ timers = {[id |-> debounceTimer, left |-> DebounceTicks]}

\* C1: at most one commit attempt is in flight: the close handler does not
\* stage or commit (its status query found changes and it ran add -A) while the
\* stage/commit sequence of a runCommit attempt is in flight.
C1_OneAttemptInFlight ==
    ~(commit.pc \in {"status", "add", "commit"} /\ Len(closeRan) >= 2)

\* C2: the end of an attempt arms exactly one debounce timer if requests were
\* coalesced behind it and none otherwise, and the re-run owed to them is
\* started: its timer goes away only by starting an attempt (or, as the conflict
\* gate and unload demand, by being rejected at the gate or by unload).
C2_OneRerun ==
    /\ [][CommitFinished' =>
            /\ commit'.pc = "idle"
            /\ rerunOwed' = (coalesced > 0)
            /\ IF coalesced > 0 THEN FreshlyArmed'
               ELSE timers' = timers /\ debounceTimer' = debounceTimer]_vars
    /\ [][rerunOwed /\ timers # {} /\ timers' = {} =>
            \/ AttemptStarted' /\ ~rerunOwed'
            \/ _hasConflicts /\ lastCall'.op = "commit" /\ lastCall'.path = "conflict"
            \/ loaded /\ ~loaded']_vars

\* C3: while ConflictSet is non-empty every runCommit call, manual or auto,
\* returns false at the gate, starts no subprocess and no attempt, and leaves
\* isCommitting, pendingRerun and the debounce timer as they were (an auto call
\* comes from the timer's callback, which has dropped its own fired timer).
C3_ConflictGate ==
    [][conflictFiles # {} /\ CommitCalled' =>
        /\ lastCall'.path = "conflict"
        /\ lastCall'.ret = FALSE
        /\ lastCall'.procs = <<>>
        /\ commit' = commit
        /\ isCommitting' = isCommitting
        /\ pendingRerun' = pendingRerun
        /\ IF lastCall'.who = "manual"
           THEN timers' = timers /\ debounceTimer' = debounceTimer
           ELSE timers' = {t \in timers : t.left > 0}]_vars

\* An automatic call was rejected at the gate with conflict files present.
C3_Witness ==
    conflictFiles # {} /\ lastCall.op = "commit" /\ lastCall.who = "auto"
    /\ lastCall.path = "conflict"

\* C4: once a pull that reported conflicts has been handled, ConflictSet is
\* populated and the gate is closed until the user marks conflicts resolved.
C4_GateStaysClosed ==
    conflictReported => _hasConflicts /\ conflictFiles # {}

\* C5 as stated: at most one debounce timer is armed, every qualifying file event
\* re-arms it, events on ignored paths and folders leave it untouched.
C5_Original ==
    /\ [](Cardinality(timers) <= 1)
    /\ [][QualifyingEvent' => FreshlyArmed']_vars
    /\ [][lastCall'.op = "event" /\ ~QualifyingEvent' =>
            timers' = timers /\ debounceTimer' = debounceTimer]_vars

\* C5 as amended: at most one debounce timer is armed and debounceTimer holds it;
\* with auto commit enabled every qualifying file event cancels it and arms a new
\* one with the full delay; with auto commit disabled a qualifying event leaves
\* it untouched, as an event on a folder or an ignored path always does; an
\* automatic attempt starts only when the full delay has passed since the last
\* qualifying event handled with auto commit enabled.
C5_Debounce ==
    /\ [](/\ Cardinality(timers) <= 1
          /\ \A t \in timers : t.id = debounceTimer
          /\ debounceTimer # 0 => timers # {})
    /\ [][QualifyingEvent' =>
            IF settings.autoCommit THEN FreshlyArmed'
            ELSE timers' = timers /\ debounceTimer' = debounceTimer]_vars
    /\ [][lastCall'.op = "event" /\ ~QualifyingEvent' =>
            timers' = timers /\ debounceTimer' = debounceTimer]_vars
    /\ [][AttemptStarted' /\ lastCall'.who = "auto" => quiet = DebounceTicks]_vars

\* The last of several qualifying events re-armed the timer with auto commit on.
C5_Witness ==
    QualifyingEvent /\ nQual = MaxEvents /\ settings.autoCommit /\ FreshlyArmed

\* C6: with auto commit enabled, no conflict and the plugin loaded, every
\* qualifying file change is followed by the start of a commit attempt.
C6_EventuallyCommitted == QualifyingEvent ~> AttemptStarted

\* The debounce timer fired while an attempt was in flight, after a file event.
C6_Witness ==
    nQual > 0 /\ lastCall.op = "commit" /\ lastCall.who = "auto"
    /\ lastCall.path = "coalesced"

\* C7: isCommitting is set exactly while an attempt is in flight; an attempt in
\* flight can always take its next step; every end of an attempt, on whichever
\* path, leaves isCommitting false and no attempt running, and with pendingRerun
\* set it arms the debounce timer instead of starting the re-run itself.
C7_ReturnsToIdle ==
    /\ [](isCommitting <=> commit.pc # "idle")
    /\ [](commit.pc # "idle" /\ ~closed => ENABLED CommitStep)
    /\ [][CommitFinished' =>
            /\ ~isCommitting'
            /\ commit'.pc = "idle"
            /\ pendingRerun => FreshlyArmed']_vars

\* An attempt ended on a push failure with a re-run pending.
C7_Witness ==
    lastCall.op = "commit" /\ lastCall.path = "pushFailed" /\ pendingRerun
    /\ ~isCommitting /\ FreshlyArmed

\* C8: an attempt whose changed-files query lists nothing ends there: it returns
\* false having started the status query only, starts no push, and shows one
\* "no changes" notice to a manual caller and none to an automatic one.
C8_NothingToCommit ==
    [][lastCall'.op = "commit" /\ lastCall'.path = "noChanges" =>
        /\ ChangedCount = 0
        /\ commit.pc = "status" /\ commit'.pc = "idle"
        /\ lastCall'.ret = FALSE
        /\ lastCall'.procs = <<"status">>
        /\ tasks' = tasks
        /\ lastCall'.notices = IF lastCall'.who = "manual" THEN <<"noChanges">>
                               ELSE <<>>]_vars

\* An automatic attempt found nothing to commit and stayed silent.
C8_Witness ==
    lastCall.op = "commit" /\ lastCall.path = "noChanges" /\ lastCall.who = "auto"
    /\ lastCall.notices = <<>>

\* C9: every user-triggered commit, push, pull, revert or resolve that has
\* returned showed exactly one notice.
C9_ExactlyOneNotice ==
    /\ lastCall.op \in {"commit", "push", "pull", "revert", "resolve"}
    /\ lastCall.who \in {"manual", "command", "settings", "ribbon"}
    /\ lastCall.path # "started"
    => Len(lastCall.notices) = 1

\* C10: an attempt returns true, or shows the "committed" notice, only when its
\* commit subprocess created a commit.
C10_ReportsOnlyRealCommits ==
    CommitFinished /\ (lastCall.ret \/ \E i \in 1..Len(lastCall.notices) :
                                          lastCall.notices[i] = "committed")
    => lastCall.created

\* The state detectRepoState is to return for what the probes find: that of the
\* first failing probe.
FirstFailing ==
    IF ProbeFails("isGitRepo") THEN "not-a-repo"
    ELSE IF ProbeFails("hasCommit") THEN "empty-repo"
    ELSE IF ProbeFails("getRemoteUrl") THEN "local-only"
    ELSE IF ProbeFails("hasUpstream") THEN "remote-no-upstream"
    ELSE "ready"

\* The call of the git layer has returned or thrown.
GitReturned == git.pc = "idle" /\ git.ret # "-"

\* A `pull` or `pull origin` subprocess was started.
PullStarted == \E i \in 1..Len(git.procs) : git.procs[i] \in {"pull", "pull origin"}

\* C11: pull on a repository that is not ready starts no pull subprocess at any
\* point and returns the not-ready result: success and hasConflicts false,
\* notReady true.
C11_NotReadyNoPull ==
    git.op = "pull" /\ FirstFailing # "ready" =>
        /\ ~PullStarted
        /\ GitReturned =>
            /\ git.ret = "value"
            /\ ~git.result.success /\ ~git.result.hasConflicts /\ git.result.notReady

\* pull returned on a repository with a remote and no upstream.
C11_Witness ==
    git.op = "pull" /\ GitReturned /\ FirstFailing = "remote-no-upstream"
    /\ git.result.notReady

\* C12: when a pull has run its upstream-based attempt and its one fallback and
\* the failure text of either indicates a merge conflict, pull returns
\* hasConflicts = true and does not throw; the fallback runs only after a failed
\* upstream-based attempt, and once.
C12_ConflictIsAResult ==
    /\ git.op = "pull" /\ GitReturned
       /\ (\E i \in 1..Len(git.procs) : git.procs[i] = "pull origin")
       /\ (\E i \in 1..Len(git.texts) : IndicatesConflict(git.texts[i]))
       => git.ret = "value" /\ git.result.hasConflicts
    /\ Cardinality({i \in 1..Len(git.procs) : git.procs[i] = "pull origin"}) <= 1
    /\ (\E i \in 1..Len(git.procs) : git.procs[i] = "pull origin") => Len(git.texts) >= 1

\* C13: detectRepoState returns the state of the first failing probe in the
\* order not-a-repo, empty-repo, local-only, remote-no-upstream, and ready only
\* when all four hold; it has run the probes up to that one and none after it.
C13_FirstFailingProbe ==
    git.state # "-" =>
        /\ git.state = FirstFailing
        /\ \E k \in 1..4 :
            /\ SubSeq(git.procs, 1, k) = [i \in 1..k |-> ProbeProc[ProbeNames[i]]]
            /\ \A i \in 1..(k - 1) : ~ProbeFails(ProbeNames[i])
            /\ k < 4 => ProbeFails(ProbeNames[k])
            /\ git.op = "detect" => Len(git.procs) = k

\* detectRepoState returned local-only without asking for the upstream.
C13_Witness ==
    git.op = "detect" /\ GitReturned /\ git.state = "local-only" /\ Len(git.procs) = 3
    /\ probes["spawn"] /\ ~probes["hasUpstream"]

\* The changed paths a status output reports: the path of every record, which
\* for a rename or copy is the new path.
ReportedPaths == {stdout[i].path : i \in {k \in 1..Len(stdout) : stdout[k].xy # <<>>}}

\* The elements of a list.
Elements(list) == {list[i] : i \in 1..Len(list)}

\* A list with no element twice.
NoDuplicates(list) == \A i, j \in 1..Len(list) : list[i] = list[j] => i = j

\* C14: getChangedFiles and getChangedFilesSync return every changed path of the
\* status output exactly once and nothing else: for a rename or copy the new
\* path, and the old path only if another record reports it.
C14_EachPathOnce ==
    parsed.done /\ parsed.ok =>
        /\ NoDuplicates(parsed.files) /\ NoDuplicates(parsed.syncFiles)
        /\ Elements(parsed.files) = ReportedPaths
        /\ Elements(parsed.syncFiles) = ReportedPaths

\* C15: getFileStatuses gives the path of every record, for a rename or copy the
\* new path, the one status of its code under Unmerged > Added > Modified >
\* Renamed > none, untracked being Added, and has no other key.
C15_OneStatusPerPath ==
    parsed.done /\ parsed.ok =>
        /\ \A i \in 1..Len(stdout) :
            stdout[i].xy # <<>> /\ StatusOf(stdout[i].xy) # "" =>
                /\ stdout[i].path \in DOMAIN parsed.statuses
                /\ parsed.statuses[stdout[i].path] = StatusOf(stdout[i].xy)
        /\ DOMAIN parsed.statuses \subseteq ReportedPaths


\* The statuses from the lowest precedence to the highest.
Precedence == <<"R", "M", "A", "U">>

Rank(status) == IF status = "" THEN 0 ELSE CHOOSE i \in 1..4 : Precedence[i] = status

\* The status of a file with the conflict overlay applied.
Effective(path) == IF path \in conflicts THEN "U" ELSE MapGet(fileStatuses, path)

\* The files below a folder.
Below(folder) ==
    {q \in EngineFiles :
        /\ Len(SplitPath[q]) > Len(SplitPath[folder])
        /\ SubSeq(SplitPath[q], 1, Len(SplitPath[folder])) = SplitPath[folder]}

\* The status of the highest precedence among those of a set of files, none if
\* no file has one.
Highest(files) ==
    IF \A q \in files : Effective(q) = "" THEN ""
    ELSE CHOOSE st \in {Effective(q) : q \in files} :
            \A q \in files : Rank(Effective(q)) <= Rank(st)

\* C16: in every state of the status engine each folder's status is the status
\* of the highest precedence (Unmerged > Added > Modified > Renamed) among the
\* effective statuses of the files below it, a folder with no such file has
\* none, and recomputing the folder map from the same file statuses and
\* conflicts gives the map the engine holds.
C16_FolderIsHighest ==
    /\ \A folder \in EngineFolders : MapGet(folderStatuses, folder) = Highest(Below(folder))
    /\ DOMAIN folderStatuses \subseteq EngineFolders
    /\ rebuildFolderStatuses(fileStatuses, conflicts) = folderStatuses

\* A folder holding a modified note and, deeper, an added one shows Added.
C16_Witness ==
    /\ MapGet(fileStatuses, "d/a.md") = "M"
    /\ MapGet(fileStatuses, "d/e/b.md") = "A"
    /\ conflicts = {}
    /\ MapGet(folderStatuses, "d") = "A"
    /\ MapGet(folderStatuses, "d/e") = "A"

\* A step in which the host reports a file event.
FileEvent == tree' # tree

\* C17: a note* call made after a completed refresh keeps the file statuses
\* equal to the statuses a fresh refresh against the repository as it then is
\* would store.
C17_IncrementalIsFresh ==
    [][(FileEvent /\ enabled /\ trackedLoaded /\ fileStatuses = FreshStatuses)
        => fileStatuses' = FreshStatuses']_vars

\* The status the lookup rules give a path: none if ignored, Unmerged if
\* in conflict, else its entry.
Lookup(path) ==
    IF ShouldIgnore(path) THEN ""
    ELSE IF path \in conflicts THEN "U"
    ELSE IF path \in DOMAIN fileStatuses THEN fileStatuses[path]
    ELSE ""

\* A step in which the queued render runs over the mounted file explorer.
Rendered == rafId > 0 /\ rafId' < rafId /\ enabled /\ enabled' /\ container

RefreshCompletes == Len(refreshing') < Len(refreshing)

\* C19: a refresh that completes after an earlier one has stored its result
\* either stores the result of its two queries
\* or, a query having failed, leaves the file statuses, the tracked files, the
\* folder statuses and the conflicts as they were; it never replaces them by
\* anything else.
C19_KeepsLastKnown ==
    [][(RefreshCompletes /\ trackedLoaded) =>
        \/ UNCHANGED <<fileStatuses, trackedFiles, folderStatuses, conflicts>>
        \/ /\ fileStatuses' = FreshStatuses
           /\ trackedFiles' = getTrackedFiles
           /\ folderStatuses' = rebuildFolderStatuses(FreshStatuses, conflicts)
           /\ conflicts' = conflicts]_vars

\* No poll timer, no observer-retry timer, no requested animation frame and no
\* attached observer.
NothingPending == pollId = 0 /\ retryId = 0 /\ rafId = 0 /\ observer = "none"

C21_CommandOnlyWithConflicts ==
    resolveConflictCommand => (_hasConflicts \/ repo.unmerged # {})

\* C22: detectRepoState reports as a repository state only what the repository
\* lacks; on a repository that lacks nothing, when the git binary cannot be run
\* it does not return a state: the failure reaches its caller.
C22_UnexpectedPropagates ==
    (/\ git.op = "detect" /\ GitReturned
     /\ ~probes["spawn"]
     /\ \A i \in 1..4 : probes[ProbeNames[i]]) => git.ret = "thrown"

\* The files the engine does not ignore.
Watched == {q \in EngineFiles : ~ShouldIgnore(q)}

\* The four collections of the engine.
engineMaps == <<fileStatuses, conflicts, trackedFiles, folderStatuses>>

\* What C23 asks of a noteCreate(path) step.
CreateEffect(path) ==
    MapGet(fileStatuses', path) = IF path \in trackedFiles THEN "M" ELSE "A"

\* What C23 asks of a noteModify(path) step.
ModifyEffect(path) ==
    IF MapGet(fileStatuses, path) \in {"A", "R"}
    THEN UNCHANGED engineMaps
    ELSE MapGet(fileStatuses', path) = "M"

\* C23: once the first refresh has completed, in no state can a noteCreate on a
\* path that is not ignored do anything but set it to Added if the path is not
\* in the tracked set and to Modified if it is, and in no state can a
\* noteModify do anything but set the path to Modified, or, the path being
\* Added or Renamed, leave every collection as it is.
C23_CreateAndModify ==
    trackedLoaded =>
        \A path \in Watched :
            /\ ~ENABLED (FileCreated(path) /\ ~CreateEffect(path))
            /\ ~ENABLED (FileModified(path) /\ ~ModifyEffect(path))

\* After the one refresh of the session the tracked note is Modified and the
\* new note is Added, and both can be modified again.
C23_Witness ==
    /\ trackedLoaded /\ pollInterval = 0 /\ refreshing = <<>>
    /\ MapGet(fileStatuses, "d/a.md") = "M"
    /\ MapGet(fileStatuses, "d/e/b.md") = "A"
    /\ ENABLED (FileModified("d/e/b.md") /\ ModifyEffect("d/e/b.md"))
    /\ ENABLED (FileModified("d/a.md") /\ ModifyEffect("d/a.md"))

\* The entries of a path in the file statuses and in the conflicts stay as they are.
SameEntries(path) ==
    /\ MapGet(fileStatuses', path) = MapGet(fileStatuses, path)
    /\ (path \in conflicts') = (path \in conflicts)

\* What C24 asks of a noteRename(oldPath, newPath) step.
RenameEffect(oldPath, newPath) ==
    /\ oldPath \notin DOMAIN fileStatuses' /\ oldPath \notin conflicts'
    /\ MapGet(fileStatuses', newPath) = IF oldPath \in trackedFiles THEN "R" ELSE "A"
    /\ (newPath \in conflicts') = (newPath \in conflicts)
    /\ trackedFiles' = IF oldPath \in trackedFiles
                       THEN (trackedFiles \ {oldPath}) \cup {newPath}
                       ELSE trackedFiles
    /\ \A q \in EngineFiles \ {oldPath, newPath} : SameEntries(q)

\* What C24 asks of a noteDelete(path) step.
DeleteEffect(path) ==
    /\ path \notin DOMAIN fileStatuses' /\ path \notin conflicts'
    /\ trackedFiles' = trackedFiles
    /\ \A q \in EngineFiles \ {path} : SameEntries(q)

C25_NothingBeforeFirstRefresh ==
    ~trackedLoaded =>
        \A path \in EngineFiles :
            /\ ~ENABLED (FileCreated(path) /\ ~UNCHANGED engineMaps)
            /\ ~ENABLED (FileModified(path) /\ ~UNCHANGED engineMaps)
            /\ ~ENABLED (FileDeleted(path) /\ ~UNCHANGED engineMaps)
            /\ \A newPath \in EngineFiles :
                ~ENABLED (FileRenamed(path, newPath) /\ ~UNCHANGED engineMaps)

\* C26: in every state one poll timer is live if the engine is enabled and its
\* last start was given a poll interval above 0, and none otherwise; no start
\* of an enabled engine can do anything but begin one refresh; and while the
\* poll interval is 0 or the engine is not enabled no periodic refresh can run.
C26_PollTimer ==
    /\ pollId = IF enabled /\ pollInterval > 0 THEN 1 ELSE 0
    /\ \A poll \in {0, 1} :
        ~ENABLED (EngineStart(TRUE, poll) /\ Len(refreshing') # Len(refreshing) + 1)
    /\ (pollInterval = 0 \/ ~enabled) => ~ENABLED PollFire

\* An engine started with a poll interval whose first refresh has completed:
\* its one poll timer can fire, and it can be started again.
C26_Witness ==
    /\ enabled /\ pollInterval = 1 /\ pollId = 1 /\ trackedLoaded
    /\ ENABLED PollFire
    /\ ENABLED EngineStart(TRUE, 1)

\* A push was started among these subprocesses: getCurrentBranch, then the push.
HasPush(procs) == \E i \in 1..Len(procs) : procs[i] \in {"branch", "push"}

StatusChange ==
    /\ enabled /\ enabled' /\ Len(refreshing') <= Len(refreshing)
    /\ engineMaps' # engineMaps \/ (observer = "attached" /\ rafId' > rafId)

\* C28: at most one animation frame is requested at any time; a note event, a
\* setConflicts call, a refresh completion or an observer callback leaves the
\* badges as they are and exactly one frame requested, however many of them
\* come before the frame runs; the badges are written only by the frame (and
\* cleared by stop); and on an engine that is not enabled no frame can run.
C28_OneRenderPending ==
    /\ [](rafId <= 1 /\ (~enabled => ~ENABLED FrameRuns))
    /\ [][StatusChange => (rafId' = 1 /\ badges' = badges)]_vars
    /\ [][badges' # badges => (Rendered \/ badges' = EmptyMap)]_vars

\* One frame is requested while the badges still show the statuses of before
\* two changes: the rendered note is no longer Modified alone.
C28_Witness ==
    /\ enabled /\ container /\ rafId = 1
    /\ badges = [q \in {"d", "d/a.md"} |-> "M"]
    /\ MapGet(fileStatuses, "d/e/b.md") = "A"
    /\ "d/a.md" \in conflicts

\* C29: whenever the engine is enabled and the file explorer is in the document
\* the engine comes to observe it (unless the engine is stopped or the explorer
\* leaves first); a retry timer is pending only on an enabled engine without
\* an observer and carries a count of at most 10; and while the file explorer
\* stays absent the retries come to an end with no timer pending.
C29_ObservesAgain ==
    /\ (enabled /\ container) ~> (observer = "attached" \/ ~enabled \/ ~container)
    /\ [](retryId # 0 => (enabled /\ observer = "none" /\ retryId <= 10))
    /\ (retryId # 0) ~> (retryId = 0 \/ container)

\* The window closes in this step.
Closes == ~closed /\ closed'

\* C30: the close handler runs its subprocesses in the order status, stage,
\* commit, push and all within its one step, staging only when the status query
\* found changed files; the push is spawned only as the last of the four, after
\* a commit that left nothing staged and nothing changed; the handler returns
\* without an outcome of the push and leaves every async function where it
\* was; and only the close handler runs these subprocesses.
C30_CommitBeforeClose ==
    /\ [](closeRan # <<>> => closed)
    /\ [][Closes =>
            /\ \E n \in 0..4 : closeRan' = SubSeq(<<"status", "add", "commit", "push">>, 1, n)
            /\ Len(closeRan') >= 2 => ChangedCount > 0
            /\ Len(closeRan') = 4 => (~repo'.index /\ ~repo'.work /\ repo'.unmerged = {})
            /\ commit' = commit /\ tasks' = tasks]_vars
    /\ [][closed => closeRan' = closeRan]_vars

\* The window has closed on changed files: the handler staged, committed and
\* spawned the push.
C30_Witness ==
    /\ closed
    /\ closeRan = <<"status", "add", "commit", "push">>
    /\ ~repo.index /\ ~repo.work

\* lastCall records the return of "mark conflicts as resolved".
ResolveReturned == lastCall.op = "resolve"

\* C31: marking conflicts resolved runs `add -A`; when it succeeds everything is
\* staged, ConflictSet is empty and the conflict flag is clear, and from then on
\* no runCommit call is rejected at the gate while the flag stays clear; when it
\* fails the repository, ConflictSet and the flag are as they were and a closed
\* gate stays closed.
C31_MarkResolved ==
    /\ [][ResolveReturned' =>
            /\ tasks["resolve"].pc = "add" /\ tasks'["resolve"].pc = "idle"
            /\ IF lastCall'.ret
               THEN /\ repo' = Staged
                    /\ conflictFiles' = {}
                    /\ ~_hasConflicts'
                    /\ ~ConflictGate'
               ELSE /\ repo' = repo
                    /\ conflictFiles' = conflictFiles
                    /\ _hasConflicts' = _hasConflicts
                    /\ ConflictGate' = ConflictGate]_vars
    /\ [][CommitCalled' /\ ~_hasConflicts => lastCall'.path # "conflict"]_vars

\* Conflicts raised in this session were marked resolved from the settings tab:
\* the unmerged paths are staged, ConflictSet is empty and the flag is clear.
C31_Witness ==
    /\ ResolveReturned /\ lastCall.ret /\ lastCall.who = "settings"
    /\ resolveConflictCommand
    /\ repo.index /\ repo.unmerged = {}
    /\ ~_hasConflicts /\ conflictFiles = {}

\* The attempt in flight starts its `add -A` or its `commit` in this step.
AttemptStages ==
    \/ commit.pc # "add" /\ commit'.pc = "add"
    \/ commit.pc # "commit" /\ commit'.pc = "commit"

\* The close handler runs `add -A` (and `commit` after it) in this step.
CloseStages == Closes /\ Len(closeRan') >= 2

\* C32: no `add -A` or `commit` subprocess of a commit is started while the
\* conflict flag is set: not by an attempt that passed the gate earlier, not by
\* the close handler.
C32_NoStagingUnderConflict ==
    [][AttemptStages \/ CloseStages => ~_hasConflicts]_vars

\* C33: the conflict flag is set exactly when the plugin's set of conflict
\* files is non-empty.
C33_FlagIffConflictFiles == _hasConflicts <=> conflictFiles # {}

\* C34: an attempt with reason "auto" is started only with the auto-commit
\* setting enabled (the setting at rest: no toggle awaiting its save).
C34_NoAutoWhenDisabled ==
    [][AttemptStarted' /\ lastCall'.who = "auto" /\ tasks["toggle"].pc = "idle"
        => settings.autoCommit]_vars

\* C35: once the plugin is unloaded no debounce timer is armed and no commit
\* attempt is started.
C35_QuietAfterUnload ==
    /\ [](~loaded => timers = {} /\ debounceTimer = 0)
    /\ [][AttemptStarted' => loaded]_vars

\* C36: one invocation of "Commit and push" starts at most one push
\* subprocess: the push of its own doPush is not started when the attempt has
\* already pushed (and shown "pushed").
C36_AtMostOnePush ==
    ~(/\ tasks["cpush"].pc = "push"
      /\ \E i \in 1..Len(tasks["cpush"].notices) : tasks["cpush"].notices[i] = "pushed")

\* C37: a pull started from the settings Pull button shows the "pulled" notice
\* only when the pull succeeded.
C37_PulledOnlyOnSuccess ==
    /\ lastCall.op = "pull" /\ lastCall.who = "settings"
    /\ \E i \in 1..Len(lastCall.notices) : lastCall.notices[i] = "pulled"
    => lastCall.ret /\ lastCall.path = "pulled"

\* C38: while the status engine is not enabled (never started, stopped, or
\* started with enabled = false) its four collections are empty.
C38_EmptyWhileStopped ==
    ~enabled => /\ fileStatuses = EmptyMap
                /\ folderStatuses = EmptyMap
                /\ trackedFiles = {}
                /\ conflicts = {}

\* C39: a refresh that completes does not replace an up-to-date FileStatusMap
\* with older data: when the only refresh in flight completes with queries that
\* both succeeded, and FileStatusMap already was what the working tree's status
\* is (the first refresh is done; note updates or a later refresh brought it up
\* to date), FileStatusMap still is the working tree's status afterwards.
C39_NoStaleOverwrite ==
    [][/\ RefreshCompletes
       /\ Len(refreshing) = 1
       /\ refreshing[1].read /\ refreshing[1].statusOk /\ refreshing[1].trackedOk
       /\ enabled /\ trackedLoaded
       /\ fileStatuses = FreshStatuses
       => fileStatuses' = FreshStatuses]_vars

\* C40: when a status refresh of the plugin completes, by a full re-render or
\* by diff patching, every row in the document carries exactly the badge of
\* its merged status, and none when it has no status.
C40_DiffIsFullRender ==
    [][RefreshCompletes =>
        \A r \in rows' :
            MapGet(badges', r) = MapGet(getMergedStatuses(currentStatuses)', r)]_vars

====
